---------------------------- MODULE Spec2Model ----------------------------
(***************************************************************************)
(* State-machine model of the acme product importer: the ingest worker,    *)
(* the bulk-delete worker, the webhook-delivery task, the job rows and the *)
(* product store they share.                                               *)
(*                                                                         *)
(* Text values (sku, name, description, the raw "active" column) are       *)
(* sequences of one-character strings, so that strip() and lower() are     *)
(* computed and not assumed.                                               *)
(***************************************************************************)
EXTENDS Integers, Sequences, FiniteSets, TLC

VARIABLES
    products,   \* the products table: a set of rows [id, sku, name, description, active]
    nextId,     \* the products.id sequence (autoincrement)
    lastCall,   \* the last repository call applied to the table: [op, batch]
    firstRun,   \* the products table as it was when a file was uploaded again
    jobs,       \* the import_jobs table: job id -> row, or NoJob
    files,      \* the temporary upload file of each job: its data rows, or NoFile
    uploaded,   \* what was uploaded for each job (kept after the file is removed)
    task,       \* the broker's view of each work item: [state, retries]
    w,          \* the locals of the task function running each work item
    progress,   \* the progress store: job id -> the Redis hash of the job
    fanout,     \* the publish_event calls made so far, in order
    ghost,      \* per work item: deliveries so far, worker losses, outcomes
    webhook,    \* the webhooks table: the one subscription, or NoWebhook
    deliveries, \* the webhook_deliveries table: the delivery logs, by id
    clock,      \* the wall clock, as time.time() and the database's now() read it
    http,       \* the answer to the last bulk-delete request: its status code
    stream,     \* the locals of the progress stream's event_generator
    channel,    \* the messages delivered to the stream's subscription, unread
    emitted,    \* the events the stream has sent to its client, in order
    call,       \* the last call of a function followed on its own: arguments, result
    outage,     \* whether calls to the progress store and the webhook queue may fail
    sessions    \* the database sessions that are inside increment_processed_rows

storeVars == <<products, nextId, lastCall, firstRun>>
jobVars == <<jobs, files, uploaded, task, w, progress, fanout, ghost>>
hookVars == <<webhook, deliveries>>
envVars == <<clock, http, call, outage, sessions>>
sseVars == <<stream, channel, emitted>>
vars == <<products, nextId, lastCall, firstRun, jobs, files, uploaded, task, w, progress,
          fanout, ghost, webhook, deliveries, clock, http, stream, channel, emitted,
          call, outage, sessions>>

-----------------------------------------------------------------------------
(* Text helpers: str.strip(), str.lower()                                  *)

\* Python None for an optional text column
None == <<"None">>

\* str.lower() on one character, over the letters the model's inputs use
LowerChar(c) ==
    CASE c = "A" -> "a"
      [] c = "B" -> "b"
      [] c = "F" -> "f"
      [] c = "N" -> "n"
      [] c = "O" -> "o"
      [] c = "T" -> "t"
      [] c = "Y" -> "y"
      [] OTHER -> c

\* str.lower()
Lower(s) == [i \in DOMAIN s |-> LowerChar(s[i])]

IsSpace(c) == c = " "

RECURSIVE LStrip(_)
LStrip(s) == IF s # <<>> /\ IsSpace(Head(s)) THEN LStrip(Tail(s)) ELSE s

RECURSIVE RStrip(_)
RStrip(s) ==
    IF s # <<>> /\ IsSpace(s[Len(s)]) THEN RStrip(SubSeq(s, 1, Len(s) - 1)) ELSE s

\* str.strip()
Strip(s) == RStrip(LStrip(s))

-----------------------------------------------------------------------------
(* Product schema and product store                                        *)

\* ProductBase.strip_whitespace + NonEmptyStr(min_length=1): the validated
\* payload, or a ValidationError
ValidationError == [ok |-> FALSE]

ProductCreate(sku, name, description, active) ==
    IF Strip(sku) = <<>> \/ Strip(name) = <<>>
    THEN ValidationError
    ELSE [ok |-> TRUE, sku |-> Strip(sku), name |-> Strip(name),
          description |-> description, active |-> active]

\* A faulty variant of the index: unique on sku as written
IndexKeyExact(sku) == sku

\* The unique index uq_products_sku_lower: the expression rows are unique on
IndexKey(sku) == Lower(sku)

\* A faulty variant: no row ever conflicts (a plain INSERT)
ConflictRowsNone(table, sku) == {}

\* The row of the table that a row with this sku conflicts with, as a set
ConflictRows(table, sku) == {p \in table : IndexKey(p.sku) = IndexKey(sku)}

\* batch_upsert, lines 40-61: deduplicate by lower(strip(sku)) keeping the last
\* occurrence (a dict: the key keeps its first position, the value is replaced)
\* and skip empty SKUs.  seen is the dict's values in insertion order.
DictFor(p) ==
    [sku |-> Strip(p.sku), name |-> p.name, description |-> p.description,
     active |-> p.active]

\* A faulty variant of the deduplication: the first occurrence is kept
RECURSIVE SeenSkusKeepFirst(_, _)
SeenSkusKeepFirst(ps, seen) ==
    IF ps = <<>> THEN seen
    ELSE LET p == Head(ps)
             key == Lower(Strip(p.sku))
         IN  IF p.sku = <<>> \/ Strip(p.sku) = <<>>
             THEN SeenSkusKeepFirst(Tail(ps), seen)
             ELSE IF \E i \in DOMAIN seen : Lower(seen[i].sku) = key
                  THEN SeenSkusKeepFirst(Tail(ps), seen)
                  ELSE SeenSkusKeepFirst(Tail(ps), Append(seen, DictFor(p)))

RECURSIVE SeenSkus(_, _)
SeenSkus(ps, seen) ==
    IF ps = <<>> THEN seen
    ELSE LET p == Head(ps)
             key == Lower(Strip(p.sku))
         IN  IF p.sku = <<>> \/ Strip(p.sku) = <<>>
             THEN SeenSkus(Tail(ps), seen)
             ELSE IF \E i \in DOMAIN seen : Lower(seen[i].sku) = key
                  THEN SeenSkus(Tail(ps),
                           [i \in DOMAIN seen |->
                               IF Lower(seen[i].sku) = key THEN DictFor(p) ELSE seen[i]])
                  ELSE SeenSkus(Tail(ps), Append(seen, DictFor(p)))

\* A faulty variant: the SET list names created_at too, so a conflict gives
\* the row a fresh created_at
RECURSIVE InsertOnConflictSetCreatedAt(_, _, _, _)
InsertOnConflictSetCreatedAt(table, nid, dicts, now) ==
    IF dicts = <<>> THEN [products |-> table, nextId |-> nid]
    ELSE LET d == Head(dicts)
             hit == ConflictRows(table, d.sku)
         IN  IF hit # {}
             THEN InsertOnConflictSetCreatedAt(
                      (table \ hit) \cup
                          {[p EXCEPT !.name = d.name, !.description = d.description,
                                     !.active = d.active, !.created_at = now] : p \in hit},
                      nid, Tail(dicts), now)
             ELSE InsertOnConflictSetCreatedAt(
                      table \cup {[id |-> nid, sku |-> d.sku, name |-> d.name,
                                   description |-> d.description, active |-> d.active,
                                   created_at |-> now]},
                      nid + 1, Tail(dicts), now)

\* INSERT ... ON CONFLICT (lower(sku)) DO UPDATE SET name, description, active,
\* lines 63-82, applied to the proposed rows in order; the result is the new
\* table and the new value of the id sequence.  An inserted row takes its id
\* from the sequence and its created_at from the column default now(); the
\* SET list of lines 70-74 names neither.
RECURSIVE InsertOnConflict(_, _, _, _)
InsertOnConflict(table, nid, dicts, now) ==
    IF dicts = <<>> THEN [products |-> table, nextId |-> nid]
    ELSE LET d == Head(dicts)
             hit == ConflictRows(table, d.sku)
         IN  IF hit # {}
             THEN InsertOnConflict(
                      (table \ hit) \cup
                          {[p EXCEPT !.name = d.name, !.description = d.description,
                                     !.active = d.active] : p \in hit},
                      nid, Tail(dicts), now)
             ELSE InsertOnConflict(
                      table \cup {[id |-> nid, sku |-> d.sku, name |-> d.name,
                                   description |-> d.description, active |-> d.active,
                                   created_at |-> now]},
                      nid + 1, Tail(dicts), now)

\* ProductRepository.batch_upsert
batch_upsert(table, nid, batch, now) ==
    IF batch = <<>> THEN [products |-> table, nextId |-> nid]
    ELSE InsertOnConflict(table, nid, SeenSkus(batch, <<>>), now)

\* ProductRepository.create: the insert, or IntegrityError (no change) when the
\* unique index rejects the row
create(table, nid, product, now) ==
    IF ConflictRows(table, Strip(product.sku)) # {}
    THEN [products |-> table, nextId |-> nid, error |-> "IntegrityError"]
    ELSE [products |-> table \cup {[id |-> nid, sku |-> Strip(product.sku),
                                    name |-> product.name,
                                    description |-> product.description,
                                    active |-> product.active,
                                    created_at |-> now]},
          nextId |-> nid + 1, error |-> "none"]

\* ProductRepository.update: upd is a function whose domain is the set of
\* provided (non-None) fields of the ProductUpdate payload
update(table, product_id, upd) ==
    LET found == {p \in table : p.id = product_id} IN
    IF found = {} THEN [products |-> table, error |-> "not_found"]
    ELSE LET old == CHOOSE p \in found : TRUE
             new == [id |-> old.id,
                     sku |-> IF "sku" \in DOMAIN upd THEN Strip(upd.sku) ELSE old.sku,
                     name |-> IF "name" \in DOMAIN upd THEN upd.name ELSE old.name,
                     description |-> IF "description" \in DOMAIN upd
                                     THEN upd.description ELSE old.description,
                     active |-> IF "active" \in DOMAIN upd THEN upd.active ELSE old.active,
                     created_at |-> old.created_at]
         IN  IF ConflictRows(table \ {old}, new.sku) # {}
             THEN [products |-> table, error |-> "IntegrityError"]
             ELSE [products |-> (table \ {old}) \cup {new}, error |-> "none"]

\* ProductRepository.delete
delete(table, product_id) == {p \in table : p.id # product_id}

\* A faulty variant: a DELETE without its WHERE clause
delete_by_ids_NoWhere(table, ids) == {}

\* The bulk-delete transaction: DELETE FROM products WHERE id IN (ids)
delete_by_ids(table, ids) == {p \in table : p.id \notin ids}

-----------------------------------------------------------------------------
(* Bounds and program constants                                            *)

\* Longest uploaded file, in data rows
MaxRows == 3

\* How many times a worker may be lost while holding a work item
MaxLost == 1

\* How many products the product endpoint creates
MaxProducts == 3

\* Longest batch batch_upsert is called with directly
MaxBatch == 2

\* Largest product id the sequence hands out under direct repository calls
MaxId == 2

\* Latest reading of the wall clock
MaxClock == 2

\* Largest id in the webhooks table when publish_event is followed on its own
MaxHooks == 2

\* Most progress events one stream is followed for
MaxEmitted == 2

\* The longest text an endpoint answers with, or an exception carries
MaxBody == 5

\* webhook_tasks.MAX_RESPONSE_BODY_LENGTH, scaled down from 1000
MAX_RESPONSE_BODY_LENGTH == 3

\* The times of api/progress.py in tenths of a second: the timeout of
\* wait_for around get_message, the pause after a heartbeat, and the least
\* time between two polls of the stored snapshot
WAIT_TIMEOUT == 10

HEARTBEAT_SLEEP == 1

poll_interval == 25

\* Settings.max_upload_size_mb (its default) and CSVValidator.MAX_FILE_SIZE_MB
max_upload_size_mb == 512

MAX_FILE_SIZE_MB == 100

\* bulk_delete_tasks.BATCH_SIZE, scaled down like import_tasks.BATCH_SIZE
DELETE_BATCH_SIZE == 2

\* BATCH_SIZE (10_000 in the source), scaled so that a file of MaxRows rows
\* spans a full batch and a final partial batch
BATCH_SIZE == 2

\* CSVValidator.SAMPLE_SIZE (100 in the source), scaled so that a file of
\* MaxRows rows has rows beyond the validated sample
SAMPLE_SIZE == 2

\* retry_kwargs={"max_retries": 3}
max_retries == 3

JobIds == {"j1", "j2"}

\* Work items: an ingest or bulk-delete work item carries its job's id
\* (task_id = job id); d1 is a webhook delivery work item
TaskIds == JobIds \cup {"d1"}

-----------------------------------------------------------------------------
(* CSV input, the validator and the worker's row parser                    *)

\* The data rows an uploaded file may hold (header sku,name,description,active)
CsvRows ==
    { [sku |-> <<"a">>, name |-> <<"x">>, description |-> <<>>, active |-> <<"t">>],
      [sku |-> <<"A">>, name |-> <<"y", " ">>, description |-> <<"d", " ">>,
       active |-> <<"N", "o">>],
      [sku |-> <<" ">>, name |-> <<"x">>, description |-> <<>>, active |-> <<"t">>] }

RECURSIVE SeqsUpTo(_, _)
SeqsUpTo(S, n) ==
    IF n = 0 THEN {<<>>}
    ELSE LET shorter == SeqsUpTo(S, n - 1)
         IN  shorter \cup {Append(q, x) : q \in {r \in shorter : Len(r) = n - 1}, x \in S}

Files == SeqsUpTo(CsvRows, MaxRows)

TrueWords == {<<"t", "r", "u", "e">>, <<"y", "e", "s">>, <<"1">>, <<"t">>, <<"y">>}
FalseWords == {<<"f", "a", "l", "s", "e">>, <<"n", "o">>, <<"0">>, <<"f">>, <<"n">>}

\* CSVValidator._parse_bool on a string: "true", "false" or "ValueError"
parse_bool(value) ==
    IF Lower(Strip(value)) \in TrueWords THEN "true"
    ELSE IF Lower(Strip(value)) \in FalseWords THEN "false"
    ELSE "ValueError"

\* One sampled row passes _validate_sample_rows without an error: active is
\* coercible and CSVProductRow accepts sku and name
SampleRowOk(row) ==
    /\ parse_bool(row.active) # "ValueError"
    /\ ProductCreate(row.sku, row.name, row.description, TRUE).ok

Min(a, b) == IF a < b THEN a ELSE b

\* A faulty variant: total_rows counts the sampled rows only
validate_file_SampleCount(rows) ==
    [is_valid |-> \A i \in 1..Min(SAMPLE_SIZE, Len(rows)) : SampleRowOk(rows[i]),
     total_rows |-> Min(SAMPLE_SIZE, Len(rows))]

\* CSVValidator.validate_file on a .csv file with the full header: the first
\* SAMPLE_SIZE rows are schema-checked, the rest are only counted
validate_file(rows) ==
    [is_valid |-> \A i \in 1..Min(SAMPLE_SIZE, Len(rows)) : SampleRowOk(rows[i]),
     total_rows |-> Len(rows)]

\* _parse_csv_row followed by the except of lines 260-263: the ProductCreate,
\* or ValidationError for a row that is skipped
parse_csv_row(row) ==
    IF row.sku = <<>> \/ row.name = <<>> THEN ValidationError
    ELSE ProductCreate(
             Strip(row.sku), Strip(row.name),
             IF Strip(row.description) = <<>> THEN None ELSE Strip(row.description),
             ~(row.active # <<>> /\ Lower(Strip(row.active)) \in FalseWords))

\* The for loop of lines 255-266 from reader position pos: rows are parsed and
\* appended until the batch holds BATCH_SIZE products or the file ends
RECURSIVE ReadBatch(_, _, _)
ReadBatch(rows, pos, batch) ==
    IF pos >= Len(rows) \/ Len(batch) >= BATCH_SIZE THEN [batch |-> batch, pos |-> pos]
    ELSE LET product == parse_csv_row(rows[pos + 1])
         IN  ReadBatch(rows, pos + 1,
                       IF product.ok THEN Append(batch, product) ELSE batch)

-----------------------------------------------------------------------------
(* Job rows (ImportRepository) and the progress store writer               *)

NoJob ==
    [exists |-> FALSE, job_type |-> "none", status |-> "none", total_rows |-> <<>>,
     processed_rows |-> 0, error_message |-> <<>>]

\* A path of the upload directory: the file's data rows when it exists
NoFile == [exists |-> FALSE, rows |-> <<>>]

FileOf(rows) == [exists |-> TRUE, rows |-> rows]

\* An optional integer: <<>> is None, <<n>> is n
NoInt == <<>>

\* An optional error text: <<>> is None
NoError == <<>>

\* ImportRepository.create: a row in status queued with processed_rows 0
\* (job_type takes the column default, import)
create_job(total_rows) ==
    [exists |-> TRUE, job_type |-> "import", status |-> "queued",
     total_rows |-> total_rows, processed_rows |-> 0, error_message |-> NoError]

\* A faulty variant: processed_rows is never assigned
update_status_KeepCount(table, job_id, status, processed_rows, error_message) ==
    IF ~table[job_id].exists THEN table
    ELSE [table EXCEPT
            ![job_id].status = status,
            ![job_id].error_message =
                IF error_message # NoError THEN error_message ELSE @]

\* ImportRepository.update_status: no row, no change; otherwise the status is
\* assigned, and processed_rows and error_message when given
update_status(table, job_id, status, processed_rows, error_message) ==
    IF ~table[job_id].exists THEN table
    ELSE [table EXCEPT
            ![job_id].status = status,
            ![job_id].processed_rows =
                IF processed_rows # NoInt THEN processed_rows[1] ELSE @,
            ![job_id].error_message =
                IF error_message # NoError THEN error_message ELSE @]

\* _update_job_failed (import_tasks and bulk_delete_tasks)
update_job_failed(table, job_id, error_message) ==
    update_status(table, job_id, "failed", NoInt, error_message)

\* round(processed / total * 100, 2), in hundredths of a percent
progress_pct(processed_rows, total_rows) ==
    IF total_rows > 0
    THEN (2 * processed_rows * 10000 + total_rows) \div (2 * total_rows)
    ELSE 0

\* The payload ProgressTracker.update and BulkDeleteProgressTracker.update
\* build: stage and error_message are present only when truthy
Payload(total_rows, status, processed_rows, stage, error_message, now) ==
    LET base == [k \in {"status", "processed_rows", "total_rows", "progress",
                        "updated_at"} |->
                    CASE k = "status" -> status
                      [] k = "processed_rows" -> processed_rows
                      [] k = "total_rows" -> total_rows
                      [] k = "updated_at" -> now
                      [] OTHER -> progress_pct(processed_rows, total_rows)]
        withStage == IF stage # <<>> THEN base @@ [k \in {"stage"} |-> stage] ELSE base
    IN  IF error_message # NoError
        THEN withStage @@ [k \in {"error_message"} |-> error_message]
        ELSE withStage

\* redis.hset(key, mapping=...): the payload's fields replace or join those of
\* the stored hash; the other stored fields stay
hset(hash, payload) ==
    [k \in DOMAIN hash \cup DOMAIN payload |->
        IF k \in DOMAIN payload THEN payload[k] ELSE hash[k]]

NoHash == [k \in {} |-> 0]

\* The exception a statement of the task raises (a database error)
DbError == [type |-> "OperationalError", msg |-> "connection lost"]

\* f"{type(e).__name__}: {str(e)}"
ErrorMessage(e) == <<e.type, ": ", e.msg>>

\* A faulty variant: a raised attempt is always rescheduled
AfterRaiseNoLimit(t) == [t EXCEPT !.state = "ready", !.retries = t.retries + 1]

\* Celery's autoretry (Task.retry under autoretry_for=(Exception,)): a raised
\* attempt is rescheduled with retries + 1 unless retries has reached
\* max_retries, and then the work item is dropped as failed
AfterRaise(t) ==
    IF t.retries < max_retries
    THEN [t EXCEPT !.state = "ready", !.retries = t.retries + 1]
    ELSE [t EXCEPT !.state = "dead"]

\* No function was called on its own yet
\* The database sessions of the callers of increment_processed_rows
SessionIds == {"s1", "s2"}

NoSession == [pc |-> "idle", count |-> 0, read |-> 0]

NoCall == [op |-> "none"]

\* No request was answered yet
NoResponse == [endpoint |-> "none", status_code |-> 0, job_id |-> "none"]

\* The event_generator before the stream is requested.  elapsed is the time
\* since last_poll_time, counted up to poll_interval and kept while the loop
\* runs (it is not read after the loop); live tells whether a published
\* message was received; ended tells how the generator left its try block
NoStream ==
    [pc |-> "none", job_id |-> "none", job |-> NoJob, subscribed |-> FALSE,
     handle |-> "none", is_terminal |-> FALSE, elapsed |-> 0, live |-> FALSE,
     ended |-> "no"]

\* No subscription
NoWebhook == [exists |-> FALSE, enabled |-> FALSE]

NoTask == [kind |-> "none", state |-> "none", retries |-> 0]

\* The locals of a task function before it is entered
NoLocals ==
    [pc |-> "idle", kind |-> "none", total_rows |-> 0, tracker |-> FALSE,
     bound |-> FALSE, published |-> FALSE, processed_rows |-> 0, batch_num |-> 0, batch |-> <<>>,
     final |-> FALSE, pos |-> 0, exc |-> DbError, error_message |-> NoError,
     redis_open |-> FALSE, result |-> "none", delivery_id |-> 0,
     is_success |-> FALSE, response_code |-> <<>>]

\* History of a work item: attempts started, workers lost, attempts that ended
\* in a raise, attempts that returned, and whether an attempt entered its
\* except block with no retry left
NoGhost == [runs |-> 0, lost |-> 0, raised |-> 0, returned |-> 0, final_raise |-> FALSE]

-----------------------------------------------------------------------------
(* The upload endpoint and the broker                                      *)

\* publish_event: one delivery work item per enabled subscription (there is at
\* most one subscription, and its work item is d1)
publish_event(tasks, hook) ==
    IF hook.exists /\ hook.enabled /\ tasks["d1"].state = "none"
    THEN [tasks EXCEPT !["d1"] = [kind |-> "webhook", state |-> "ready", retries |-> 0]]
    ELSE tasks

\* No work item has been created yet
Idle == \A t \in TaskIds : task[t].state = "none"

\* upload_csv, steps 4-6, for a file that passes validation: the job row is
\* created with the validator's total_rows and the work item is enqueued with
\* the job id as its id.  (A rejected upload changes nothing.)  When the same
\* rows were uploaded before, the table as it is now is remembered.
UploadCsv(j, f) ==
    /\ ~jobs[j].exists
    /\ task[j].state = "none"
    /\ validate_file(f).is_valid
    /\ jobs' = [jobs EXCEPT ![j] = create_job(<<validate_file(f).total_rows>>)]
    /\ files' = [files EXCEPT ![j] = FileOf(f)]
    /\ uploaded' = [uploaded EXCEPT ![j] = FileOf(f)]
    /\ task' = [task EXCEPT ![j] = [kind |-> "import", state |-> "ready", retries |-> 0]]
    /\ firstRun' = IF \E k \in JobIds : uploaded[k].exists /\ uploaded[k].rows = f
                   THEN products ELSE firstRun
    /\ UNCHANGED <<envVars, sseVars, hookVars, products, nextId, lastCall, w, progress, fanout, ghost>>

\* A worker takes the work item from the queue and enters the task function:
\* the Redis client is created before the try block
Deliver(j) ==
    /\ task[j].state = "ready"
    /\ task' = [task EXCEPT ![j].state = "running"]
    /\ w' = [w EXCEPT ![j] = [NoLocals EXCEPT !.pc = "start", !.kind = task[j].kind,
                                               !.redis_open = TRUE]]
    /\ ghost' = [ghost EXCEPT ![j].runs = @ + 1]
    /\ UNCHANGED <<envVars, sseVars, hookVars, products, nextId, lastCall, firstRun, jobs, files, uploaded, progress,
                   fanout>>

\* acks_late: the message is acknowledged once the task function has returned
Ack(j) ==
    /\ task[j].state = "running"
    /\ w[j].pc = "returned"
    /\ task' = [task EXCEPT ![j].state = "acked"]
    /\ w' = [w EXCEPT ![j] = NoLocals]
    /\ ghost' = [ghost EXCEPT ![j].returned = @ + 1]
    /\ UNCHANGED <<envVars, sseVars, hookVars, products, nextId, lastCall, firstRun, jobs, files, uploaded, progress,
                   fanout>>

\* reject_on_worker_lost: a worker that dies before the acknowledgement has the
\* message requeued as it was delivered (same retries)
WorkerLost(j) ==
    /\ task[j].state = "running"
    /\ ghost[j].lost < MaxLost
    /\ task' = [task EXCEPT ![j].state = "ready"]
    /\ w' = [w EXCEPT ![j] = NoLocals]
    /\ ghost' = [ghost EXCEPT ![j].lost = @ + 1]
    /\ UNCHANGED <<envVars, sseVars, hookVars, products, nextId, lastCall, firstRun, jobs, files, uploaded, progress,
                   fanout>>

\* The final raise of a task's except block, as Celery sees it
Reraise(j) ==
    /\ task[j].state = "running"
    /\ w[j].pc = "reraise"
    /\ task' = [task EXCEPT ![j] = AfterRaise(task[j])]
    /\ w' = [w EXCEPT ![j] = NoLocals]
    /\ ghost' = [ghost EXCEPT ![j].raised = @ + 1]
    /\ UNCHANGED <<envVars, sseVars, hookVars, products, nextId, lastCall, firstRun, jobs, files, uploaded, progress,
                   fanout>>

-----------------------------------------------------------------------------
(* process_csv_import                                                      *)

Running(j, kind, pc) ==
    /\ task[j].state = "running"
    /\ w[j].kind = kind
    /\ w[j].pc = pc

\* redis.publish(channel, message): the message reaches the subscription that
\* is open on the job's channel at that moment, if there is one
publish(ch, s, j, payload) ==
    IF s.subscribed /\ s.job_id = j THEN Append(ch, payload) ELSE ch

\* ProgressTracker.update with force=True: the payload, stamped with
\* time.time(), is merged into the job's hash and then published on the job's
\* channel. A call to the store that raises (the hash write, or the publish
\* after it) is caught inside update and logged (import_tasks.py 120-122).
TrackerWrite(j, status, processed_rows, stage, error_message) ==
    LET payload == Payload(w[j].total_rows, status, processed_rows, stage,
                           error_message, clock)
    IN  \/ /\ progress' = [progress EXCEPT ![j] = hset(@, payload)]
           /\ channel' = publish(channel, stream, j, payload)
        \/ /\ outage
           /\ progress' = [progress EXCEPT ![j] = hset(@, payload)]
           /\ UNCHANGED channel
        \/ /\ outage
           /\ UNCHANGED <<progress, channel>>

\* Lines 210-215: the file is gone, so the job is set to failed and the task
\* returns (without raising)
ImportCheckFile(j) ==
    /\ Running(j, "import", "start")
    /\ IF ~files[j].exists
       THEN /\ jobs' = update_job_failed(jobs, j, <<"CSV file not found">>)
            /\ w' = [w EXCEPT ![j].pc = "returned", ![j].result = "failed"]
       ELSE /\ w' = [w EXCEPT ![j].pc = "lookup"]
            /\ UNCHANGED jobs
    /\ UNCHANGED <<envVars, sseVars, hookVars, products, nextId, lastCall, firstRun, files, uploaded, task, progress,
                   fanout, ghost>>

\* Lines 217-229: the job row is read; a missing row ends the task; otherwise
\* total_rows is loaded and the tracker is created
ImportLookup(j) ==
    /\ Running(j, "import", "lookup")
    /\ IF ~jobs[j].exists
       THEN w' = [w EXCEPT ![j].pc = "returned", ![j].result = "failed"]
       ELSE w' = [w EXCEPT ![j].pc = "set_parsing", ![j].tracker = TRUE,
                           ![j].total_rows = IF jobs[j].total_rows = NoInt THEN 0
                                          ELSE jobs[j].total_rows[1]]
    /\ UNCHANGED <<envVars, sseVars, hookVars, products, nextId, lastCall, firstRun, jobs, files, uploaded, task, progress,
                   fanout, ghost>>

\* Lines 231-234
ImportSetParsing(j) ==
    /\ Running(j, "import", "set_parsing")
    /\ jobs' = update_status(jobs, j, "parsing", NoInt, NoError)
    /\ w' = [w EXCEPT ![j].pc = "pub_parsing"]
    /\ UNCHANGED <<envVars, sseVars, hookVars, products, nextId, lastCall, firstRun, files, uploaded, task, progress,
                   fanout, ghost>>

\* Lines 236-241: the parsing snapshot, then processed_rows = 0, batch_num = 0
ImportPubParsing(j) ==
    /\ Running(j, "import", "pub_parsing")
    /\ TrackerWrite(j, "parsing", 0, <<"starting">>, NoError)
    /\ w' = [w EXCEPT ![j].pc = "open", ![j].published = TRUE, ![j].bound = TRUE,
                      ![j].processed_rows = 0,
                      ![j].batch_num = 0]
    /\ UNCHANGED <<envVars, stream, emitted, hookVars, products, nextId, lastCall, firstRun, jobs, files, uploaded, task, fanout, ghost>>

\* Lines 243-250: the file is opened and the job is set to importing
ImportSetImporting(j) ==
    /\ Running(j, "import", "open")
    /\ jobs' = update_status(jobs, j, "importing", NoInt, NoError)
    /\ w' = [w EXCEPT ![j].pc = "pub_importing", ![j].batch = <<>>, ![j].pos = 0]
    /\ UNCHANGED <<envVars, sseVars, hookVars, products, nextId, lastCall, firstRun, files, uploaded, task, progress,
                   fanout, ghost>>

\* Line 252
ImportPubImporting(j) ==
    /\ Running(j, "import", "pub_importing")
    /\ TrackerWrite(j, "importing", 0, <<"batch", 0>>, NoError)
    /\ w' = [w EXCEPT ![j].pc = "read", ![j].published = TRUE]
    /\ UNCHANGED <<envVars, stream, emitted, hookVars, products, nextId, lastCall, firstRun, jobs, files, uploaded, task, fanout, ghost>>

\* Lines 255-266 and 296-297: rows are read until the batch is full (it is then
\* processed inside the loop) or the file ends (a non-empty rest is the final
\* batch; an empty one goes straight to done)
ImportRead(j) ==
    /\ Running(j, "import", "read")
    /\ LET r == ReadBatch(files[j].rows, w[j].pos, w[j].batch)
       IN  w' = [w EXCEPT ![j].batch = r.batch, ![j].pos = r.pos,
                          ![j].final = Len(r.batch) < BATCH_SIZE,
                          ![j].pc = IF r.batch = <<>> THEN "set_done" ELSE "batch"]
    /\ UNCHANGED <<envVars, sseVars, hookVars, products, nextId, lastCall, firstRun, jobs, files, uploaded, task, progress,
                   fanout, ghost>>

\* Lines 267-269 and 298-300: _process_batch in its own transaction, then the
\* local counter
ImportProcessBatch(j) ==
    /\ Running(j, "import", "batch")
    /\ LET r == batch_upsert(products, nextId, w[j].batch, clock)
       IN  /\ products' = r.products
           /\ nextId' = r.nextId
    /\ UNCHANGED <<lastCall, firstRun>>
    /\ w' = [w EXCEPT ![j].pc = "upd_progress", ![j].batch_num = @ + 1,
                      ![j].processed_rows = @ + Len(w[j].batch)]
    /\ UNCHANGED <<envVars, sseVars, hookVars, jobs, files, uploaded, task, progress, fanout, ghost>>

\* Lines 271-278 and 302-308
ImportUpdateProgressCountsAhead(j) ==
    /\ Running(j, "import", "upd_progress")
    /\ jobs' = update_status(jobs, j, "importing",
                             <<w[j].processed_rows + Len(w[j].batch)>>, NoError)
    /\ w' = [w EXCEPT ![j].pc = "pub_progress"]
    /\ UNCHANGED <<envVars, sseVars, hookVars, products, nextId, lastCall, firstRun, files, uploaded, task, progress,
                   fanout, ghost>>

ImportUpdateProgress(j) ==
    /\ Running(j, "import", "upd_progress")
    /\ jobs' = update_status(jobs, j, "importing", <<w[j].processed_rows>>, NoError)
    /\ w' = [w EXCEPT ![j].pc = "pub_progress"]
    /\ UNCHANGED <<envVars, sseVars, hookVars, products, nextId, lastCall, firstRun, files, uploaded, task, progress,
                   fanout, ghost>>

\* Lines 280-294 and 310-315: the batch snapshot; inside the loop the batch is
\* then cleared and reading goes on
ImportPubProgressNoFinalLabel(j) ==
    /\ Running(j, "import", "pub_progress")
    /\ TrackerWrite(j, "importing", w[j].processed_rows,
                    <<"batch", w[j].batch_num>>, NoError)
    /\ w' = [w EXCEPT ![j].published = TRUE,
                      ![j].pc = IF w[j].final THEN "set_done" ELSE "read",
                      ![j].batch = IF w[j].final THEN @ ELSE <<>>]
    /\ UNCHANGED <<envVars, stream, emitted, hookVars, products, nextId, lastCall, firstRun, jobs, files, uploaded, task, fanout, ghost>>

ImportPubProgress(j) ==
    /\ Running(j, "import", "pub_progress")
    /\ TrackerWrite(j, "importing", w[j].processed_rows,
                    IF w[j].final THEN <<"batch", w[j].batch_num, "final">>
                    ELSE <<"batch", w[j].batch_num>>, NoError)
    /\ w' = [w EXCEPT ![j].published = TRUE,
                      ![j].pc = IF w[j].final THEN "set_done" ELSE "read",
                      ![j].batch = IF w[j].final THEN @ ELSE <<>>]
    /\ UNCHANGED <<envVars, stream, emitted, hookVars, products, nextId, lastCall, firstRun, jobs, files, uploaded, task, fanout, ghost>>

\* A faulty variant: the row is not set to done before the snapshot and the
\* fan-out
ImportSetDoneSkipped(j) ==
    /\ Running(j, "import", "set_done")
    /\ w' = [w EXCEPT ![j].pc = "pub_done"]
    /\ UNCHANGED <<envVars, sseVars, hookVars, products, nextId, lastCall, firstRun, jobs, files,
                   uploaded, task, progress, fanout, ghost>>

\* Lines 322-329
ImportSetDone(j) ==
    /\ Running(j, "import", "set_done")
    /\ jobs' = update_status(jobs, j, "done", <<w[j].processed_rows>>, NoError)
    /\ w' = [w EXCEPT ![j].pc = "pub_done"]
    /\ UNCHANGED <<envVars, sseVars, hookVars, products, nextId, lastCall, firstRun, files, uploaded, task, progress,
                   fanout, ghost>>

\* Lines 331-336
ImportPubDone(j) ==
    /\ Running(j, "import", "pub_done")
    /\ TrackerWrite(j, "done", w[j].processed_rows, <<"completed">>, NoError)
    /\ w' = [w EXCEPT ![j].pc = "fanout", ![j].published = TRUE]
    /\ UNCHANGED <<envVars, stream, emitted, hookVars, products, nextId, lastCall, firstRun, jobs, files, uploaded, task, fanout, ghost>>

\* Lines 340-353: publish_event("import.completed", ...)
ImportFanoutFailureFailsJob(j) ==
    /\ Running(j, "import", "fanout")
    /\ \/ /\ fanout' = Append(fanout, [event |-> "import.completed", job_id |-> j,
                                       payload |->
                                           [status |-> "done",
                                            processed_rows |-> w[j].processed_rows,
                                            total_rows |-> w[j].total_rows]])
          /\ task' = publish_event(task, webhook)
          /\ UNCHANGED jobs
       \/ /\ outage
          /\ jobs' = update_job_failed(jobs, j, <<"fan-out failed">>)
          /\ UNCHANGED <<fanout, task>>
    /\ w' = [w EXCEPT ![j].pc = "unlink"]
    /\ UNCHANGED <<envVars, sseVars, hookVars, products, nextId, lastCall, firstRun, files, uploaded,
                   progress, ghost>>

ImportFanout(j) ==
    /\ Running(j, "import", "fanout")
    /\ \/ /\ fanout' = Append(fanout, [event |-> "import.completed", job_id |-> j,
                                       payload |->
                                           [status |-> "done",
                                            processed_rows |-> w[j].processed_rows,
                                            total_rows |-> w[j].total_rows]])
          /\ task' = publish_event(task, webhook)
       \* import_tasks.py 359-360: the fan-out raised, which is logged
       \/ /\ outage
          /\ UNCHANGED <<fanout, task>>
    /\ w' = [w EXCEPT ![j].pc = "unlink"]
    /\ UNCHANGED <<envVars, sseVars, hookVars, products, nextId, lastCall, firstRun, jobs, files, uploaded,
                   progress, ghost>>

\* Lines 355-370: the file is removed, the Redis client closed, the task returns
ImportUnlink(j) ==
    /\ Running(j, "import", "unlink")
    /\ files' = [files EXCEPT ![j] = NoFile]
    /\ w' = [w EXCEPT ![j].pc = "returned", ![j].redis_open = FALSE, ![j].result = "done"]
    /\ UNCHANGED <<envVars, sseVars, hookVars, products, nextId, lastCall, firstRun, jobs, uploaded, task, progress,
                   fanout, ghost>>

\* A faulty variant: every attempt is taken for the last one
LastAttemptAlways(j) == TRUE

\* self.request.retries >= self.max_retries: the attempt is the last one
LastAttempt(j) == task[j].retries >= max_retries

\* A faulty variant: the except block always reports 0
HandlerCountZero(l) == 0

\* processed_rows if 'processed_rows' in locals() else 0 (and the same for
\* deleted_count)
HandlerCount(l) == IF l.bound THEN l.processed_rows ELSE 0

\* The statements of the try block that can raise: the database reads and
\* writes, and the reader (a decoding error in the middle of the file).  The
\* tracker never raises: it swallows its own errors (lines 120-122).
ImportRaisePcs == {"lookup", "set_parsing", "open", "read", "batch", "upd_progress",
                   "set_done"}

\* A statement of the try block raises: control goes to the except block of
\* lines 377-433
ImportRaise(j) ==
    /\ task[j].state = "running"
    /\ w[j].kind = "import"
    /\ w[j].pc \in ImportRaisePcs
    /\ w' = [w EXCEPT ![j].pc = "handler", ![j].exc = DbError]
    /\ ghost' = [ghost EXCEPT ![j].final_raise = @ \/ LastAttempt(j)]
    /\ UNCHANGED <<envVars, sseVars, hookVars, products, nextId, lastCall, firstRun, jobs, files, uploaded, task, progress,
                   fanout>>

\* Lines 384-389: the error text; on the last attempt the job is set to failed
ImportHandlerLeavesRow(j) ==
    /\ Running(j, "import", "handler")
    /\ w' = [w EXCEPT ![j].error_message = ErrorMessage(w[j].exc),
                      ![j].pc = IF LastAttempt(j) THEN "h_fanout" ELSE "h_progress"]
    /\ UNCHANGED <<envVars, sseVars, hookVars, products, nextId, lastCall, firstRun, jobs, files, uploaded, task, progress,
                   fanout, ghost>>

ImportHandler(j) ==
    /\ Running(j, "import", "handler")
    /\ w' = [w EXCEPT ![j].error_message = ErrorMessage(w[j].exc),
                      ![j].pc = IF LastAttempt(j) THEN "h_fanout" ELSE "h_progress"]
    /\ jobs' = IF LastAttempt(j)
               THEN update_job_failed(jobs, j, ErrorMessage(w[j].exc))
               ELSE jobs
    /\ UNCHANGED <<envVars, sseVars, hookVars, products, nextId, lastCall, firstRun, files, uploaded, task, progress,
                   fanout, ghost>>

\* Lines 391-404: publish_event("import.failed", ...)
ImportHFanout(j) ==
    /\ Running(j, "import", "h_fanout")
    /\ fanout' = Append(fanout, [event |-> "import.failed", job_id |-> j,
                                 payload |->
                                     [status |-> "failed",
                                      error_message |-> w[j].error_message,
                                      processed_rows |-> HandlerCount(w[j])]])
    /\ task' = publish_event(task, webhook)
    /\ w' = [w EXCEPT ![j].pc = "h_unlink"]
    /\ UNCHANGED <<envVars, sseVars, hookVars, products, nextId, lastCall, firstRun, jobs, files, uploaded,
                   progress, ghost>>

\* Lines 406-412: the file is removed on the final failure only
ImportHUnlink(j) ==
    /\ Running(j, "import", "h_unlink")
    /\ files' = [files EXCEPT ![j] = NoFile]
    /\ w' = [w EXCEPT ![j].pc = "h_progress"]
    /\ UNCHANGED <<envVars, sseVars, hookVars, products, nextId, lastCall, firstRun, jobs, uploaded, task, progress,
                   fanout, ghost>>

\* Lines 414-429: the error snapshot, "failed" on the last attempt and
\* "importing" otherwise.  When the exception was raised before the tracker was
\* created, tracker.update raises NameError, which the except of line 422
\* swallows: nothing is written.  Then the Redis client is closed.
ImportHProgress(j) ==
    /\ Running(j, "import", "h_progress")
    /\ IF w[j].tracker
       THEN TrackerWrite(j, IF LastAttempt(j) THEN "failed" ELSE "importing",
                         HandlerCount(w[j]), <<>>, w[j].error_message)
       ELSE UNCHANGED <<progress, channel>>
    /\ w' = [w EXCEPT ![j].pc = "reraise", ![j].redis_open = FALSE,
                      ![j].published = @ \/ w[j].tracker]
    /\ UNCHANGED <<envVars, stream, emitted, hookVars, products, nextId, lastCall, firstRun, jobs, files, uploaded, task, fanout, ghost>>

\* The statements of the try block
ImportRun(j) ==
    \/ ImportCheckFile(j)
    \/ ImportLookup(j)
    \/ ImportSetParsing(j)
    \/ ImportPubParsing(j)
    \/ ImportSetImporting(j)
    \/ ImportPubImporting(j)
    \/ ImportRead(j)
    \/ ImportProcessBatch(j)
    \/ ImportUpdateProgress(j)
    \/ ImportPubProgress(j)
    \/ ImportSetDone(j)
    \/ ImportPubDone(j)
    \/ ImportFanout(j)
    \/ ImportUnlink(j)

\* The try block, an exception in it, and the except block
ImportStep(j) ==
    \/ ImportRun(j)
    \/ ImportRaise(j)
    \/ ImportHandler(j)
    \/ ImportHFanout(j)
    \/ ImportHUnlink(j)
    \/ ImportHProgress(j)

-----------------------------------------------------------------------------
(* WebhookService.publish_event and the product and webhook endpoints      *)

\* The SKUs the product endpoint is called with
ApiSkus == {<<"a">>, <<"b">>, <<"c">>}

\* POST /products: repository.create, then publish_event("product.created");
\* a duplicate SKU is answered 409 and changes nothing
ApiCreateProduct(sku) ==
    /\ Cardinality(products) < MaxProducts
    /\ LET r == create(products, nextId, ProductCreate(sku, <<"x">>, None, TRUE), clock)
       IN  /\ r.error = "none"
           /\ products' = r.products
           /\ nextId' = r.nextId
    /\ lastCall' = [op |-> "create", batch |-> <<>>]
    /\ fanout' = Append(fanout, [event |-> "product.created", job_id |-> "none",
                                 payload |-> [sku |-> sku]])
    /\ task' = publish_event(task, webhook)
    /\ UNCHANGED <<envVars, sseVars, hookVars, firstRun, jobs, files, uploaded, w, progress, ghost>>

\* POST /webhooks: an enabled subscription
ApiCreateWebhook ==
    /\ ~webhook.exists
    /\ webhook' = [exists |-> TRUE, enabled |-> TRUE]
    /\ UNCHANGED <<envVars, sseVars, storeVars, jobVars, deliveries>>

\* PUT /webhooks/{id} with enabled = false, while a delivery is queued or running
ApiDisableWebhook ==
    /\ webhook.exists /\ webhook.enabled
    /\ task["d1"].state \in {"ready", "running"}
    /\ webhook' = [webhook EXCEPT !.enabled = FALSE]
    /\ UNCHANGED <<envVars, sseVars, storeVars, jobVars, deliveries>>

\* The event types told apart when publish_event is followed on its own
EventTypes == {"product.created", "import.completed"}

\* A row of the webhooks table: enabled, and events, a list that the schema
\* keeps from being empty and the column from being null
HookRows ==
    {[exists |-> FALSE, enabled |-> FALSE, events |-> {}]} \cup
    [exists : {TRUE}, enabled : BOOLEAN, events : (SUBSET EventTypes) \ {{}}]

\* The webhooks tables publish_event is called on: id -> row
HookTables == [1..MaxHooks -> HookRows]

\* WebhookRepository.get_enabled_webhooks_for_event: the enabled rows, of
\* which those with event_type in their events are kept (here in id order)
get_enabled_webhooks_for_event(table, event_type) ==
    SelectSeq([i \in DOMAIN table |-> i],
              LAMBDA i : table[i].exists /\ table[i].enabled
                          /\ event_type \in table[i].events)

\* A faulty variant: the first failing delay ends the loop
RECURSIVE enqueue_each_StopAtFailure(_, _, _)
enqueue_each_StopAtFailure(ids, event_type, broken) ==
    IF ids = <<>> \/ Head(ids) \in broken
    THEN <<>>
    ELSE <<[webhook_id |-> Head(ids), event_type |-> event_type]>>
         \o enqueue_each_StopAtFailure(Tail(ids), event_type, broken)

\* Lines 49-62 of webhook_service.py: deliver_webhook_task.delay for each
\* webhook, each in its own try; broken are the webhooks for which delay
\* raises, which is logged.  The result is what was enqueued, in order.
RECURSIVE enqueue_each(_, _, _)
enqueue_each(ids, event_type, broken) ==
    IF ids = <<>>
    THEN <<>>
    ELSE (IF Head(ids) \in broken
          THEN <<>>
          ELSE <<[webhook_id |-> Head(ids), event_type |-> event_type]>>)
         \o enqueue_each(Tail(ids), event_type, broken)

\* WebhookService.publish_event, lines 38-66: the outer try catches what
\* the query raises, so nothing is raised to the caller
WebhookService_publish_event(table, event_type, broken, query_fails) ==
    IF query_fails
    THEN [enqueued |-> <<>>, raised |-> FALSE]
    ELSE [enqueued |-> enqueue_each(get_enabled_webhooks_for_event(table, event_type),
                                    event_type, broken),
          raised |-> FALSE]

\* publish_event called once on any table, for any event type, with any of
\* the enqueue calls failing
PublishEventCall ==
    /\ call = NoCall
    /\ \E table \in HookTables, event_type \in EventTypes,
          broken \in SUBSET (1..MaxHooks), query_fails \in BOOLEAN :
           call' = [op |-> "publish_event", table |-> table, event_type |-> event_type,
                    broken |-> broken, query_fails |-> query_fails,
                    result |-> WebhookService_publish_event(table, event_type, broken,
                                                            query_fails)]
    /\ UNCHANGED <<clock, http, outage, sessions, sseVars, hookVars, storeVars, jobVars>>

\* create_bulk_delete and enqueue_bulk_delete of the job repository: a
\* bulk_delete job row in status queued with processed_rows 0, and its work
\* item with the job id as its id
CreateBulkDeleteJob(j) ==
    /\ ~jobs[j].exists
    /\ task[j].state = "none"
    /\ jobs' = [jobs EXCEPT ![j] =
           [exists |-> TRUE, job_type |-> "bulk_delete", status |-> "queued",
            total_rows |-> NoInt, processed_rows |-> 0, error_message |-> NoError]]
    /\ task' = [task EXCEPT ![j] = [kind |-> "bulk_delete", state |-> "ready",
                                    retries |-> 0]]

\* A bulk-delete job and its work item come into being: what the bulk-delete
\* worker is given to work on
RequestBulkDelete(j) ==
    /\ CreateBulkDeleteJob(j)
    /\ UNCHANGED <<envVars, sseVars, hookVars, storeVars, files, uploaded, w, progress, fanout, ghost>>

\* The methods class ImportService defines
ImportServiceMethods ==
    {"create_import_job", "enqueue_import_task", "get_job", "list_recent_jobs"}

\* POST /products/bulk-delete, lines 318-352: create_delete_job and
\* enqueue_delete_task are looked up on the ImportService object.  A method
\* the class does not define raises AttributeError at the call, which the
\* except of line 346 turns into a 500 answer; nothing was created by then.
bulk_delete_all_products ==
    IF {"create_delete_job", "enqueue_delete_task"} \subseteq ImportServiceMethods
    THEN \E j \in JobIds :
            /\ CreateBulkDeleteJob(j)
            /\ http' = [endpoint |-> "bulk_delete", status_code |-> 202, job_id |-> j]
            /\ UNCHANGED <<clock, call, outage, sessions, sseVars, hookVars, storeVars, files, uploaded, w,
                           progress, fanout, ghost>>
    ELSE /\ http' = [endpoint |-> "bulk_delete", status_code |-> 500, job_id |-> "none"]
         /\ UNCHANGED <<clock, call, outage, sessions, sseVars, hookVars, storeVars, jobVars>>

-----------------------------------------------------------------------------
(* bulk_delete_all_products_task                                           *)

\* Lines 174-188: the job row is read; a missing row or a row of another type
\* ends the task
BulkLookupAnyKind(j) ==
    /\ Running(j, "bulk_delete", "start")
    /\ IF ~jobs[j].exists
       THEN w' = [w EXCEPT ![j].pc = "returned", ![j].result = "failed"]
       ELSE w' = [w EXCEPT ![j].pc = "count"]
    /\ UNCHANGED <<envVars, sseVars, hookVars, products, nextId, lastCall, firstRun, jobs, files, uploaded, task,
                   progress, fanout, ghost>>

BulkLookup(j) ==
    /\ Running(j, "bulk_delete", "start")
    /\ IF ~jobs[j].exists \/ jobs[j].job_type # "bulk_delete"
       THEN w' = [w EXCEPT ![j].pc = "returned", ![j].result = "failed"]
       ELSE w' = [w EXCEPT ![j].pc = "count"]
    /\ UNCHANGED <<envVars, sseVars, hookVars, products, nextId, lastCall, firstRun, jobs, files, uploaded, task,
                   progress, fanout, ghost>>

\* Lines 190-198: the products are counted and the tracker is created
BulkCount(j) ==
    /\ Running(j, "bulk_delete", "count")
    /\ w' = [w EXCEPT ![j].pc = "set_parsing", ![j].tracker = TRUE,
                      ![j].total_rows = Cardinality(products)]
    /\ UNCHANGED <<envVars, sseVars, hookVars, products, nextId, lastCall, firstRun, jobs, files, uploaded, task,
                   progress, fanout, ghost>>

\* Lines 200-203
BulkSetParsing(j) ==
    /\ Running(j, "bulk_delete", "set_parsing")
    /\ jobs' = update_status(jobs, j, "parsing", NoInt, NoError)
    /\ w' = [w EXCEPT ![j].pc = "pub_preparing"]
    /\ UNCHANGED <<envVars, sseVars, hookVars, products, nextId, lastCall, firstRun, files, uploaded, task,
                   progress, fanout, ghost>>

\* A faulty variant: no branch on an empty table
BulkPubPreparingNoBranch(j) ==
    /\ Running(j, "bulk_delete", "pub_preparing")
    /\ TrackerWrite(j, "preparing", 0, <<"counting">>, NoError)
    /\ w' = [w EXCEPT ![j].published = TRUE, ![j].pc = "set_importing"]
    /\ UNCHANGED <<envVars, stream, emitted, hookVars, products, nextId, lastCall, firstRun, jobs,
                   files, uploaded, task, fanout, ghost>>

\* Lines 205-209: the preparing snapshot, then the branch on an empty table
BulkPubPreparing(j) ==
    /\ Running(j, "bulk_delete", "pub_preparing")
    /\ TrackerWrite(j, "preparing", 0, <<"counting">>, NoError)
    /\ w' = [w EXCEPT ![j].published = TRUE,
                      ![j].pc = IF w[j].total_rows = 0 THEN "set_done"
                                ELSE "set_importing"]
    /\ UNCHANGED <<envVars, stream, emitted, hookVars, products, nextId, lastCall, firstRun, jobs, files, uploaded, task,
                   fanout, ghost>>

\* Lines 249-252
BulkSetImporting(j) ==
    /\ Running(j, "bulk_delete", "set_importing")
    /\ jobs' = update_status(jobs, j, "importing", NoInt, NoError)
    /\ w' = [w EXCEPT ![j].pc = "pub_deleting"]
    /\ UNCHANGED <<envVars, sseVars, hookVars, products, nextId, lastCall, firstRun, files, uploaded, task,
                   progress, fanout, ghost>>

\* Lines 254-259: the deleting snapshot, then deleted_count = 0, batch_num = 0
BulkPubDeleting(j) ==
    /\ Running(j, "bulk_delete", "pub_deleting")
    /\ TrackerWrite(j, "deleting", 0, <<"batch", 0>>, NoError)
    /\ w' = [w EXCEPT ![j].pc = "loop", ![j].published = TRUE, ![j].bound = TRUE,
                      ![j].processed_rows = 0, ![j].batch_num = 0]
    /\ UNCHANGED <<envVars, stream, emitted, hookVars, products, nextId, lastCall, firstRun, jobs, files, uploaded, task,
                   fanout, ghost>>

\* Lines 261-281: while deleted_count < total_products, up to BATCH_SIZE ids
\* are selected (in no stated order) and deleted in one transaction; an empty
\* selection leaves the loop
BulkDeleteBatch(j) ==
    /\ Running(j, "bulk_delete", "loop")
    /\ IF w[j].processed_rows >= w[j].total_rows
       THEN /\ w' = [w EXCEPT ![j].pc = "set_done"]
            /\ UNCHANGED products
       ELSE IF products = {}
       THEN /\ w' = [w EXCEPT ![j].pc = "set_done", ![j].batch_num = @ + 1]
            /\ UNCHANGED products
       ELSE \E ids \in SUBSET {p.id : p \in products} :
               /\ Cardinality(ids) = Min(DELETE_BATCH_SIZE, Cardinality(products))
               /\ products' = delete_by_ids(products, ids)
               /\ w' = [w EXCEPT ![j].pc = "upd_progress", ![j].batch_num = @ + 1,
                                 ![j].processed_rows = @ + Cardinality(ids)]
    /\ lastCall' = IF products' # products
                   THEN [op |-> "delete_by_ids", batch |-> <<>>] ELSE lastCall
    /\ UNCHANGED <<envVars, sseVars, hookVars, nextId, firstRun, jobs, files, uploaded, task, progress,
                   fanout, ghost>>

\* Lines 283-289: the job row's counter, after the delete was committed
BulkUpdateProgress(j) ==
    /\ Running(j, "bulk_delete", "upd_progress")
    /\ jobs' = update_status(jobs, j, "importing", <<w[j].processed_rows>>, NoError)
    /\ w' = [w EXCEPT ![j].pc = "pub_progress"]
    /\ UNCHANGED <<envVars, sseVars, hookVars, products, nextId, lastCall, firstRun, files, uploaded, task,
                   progress, fanout, ghost>>

\* Lines 291-297
BulkPubProgress(j) ==
    /\ Running(j, "bulk_delete", "pub_progress")
    /\ TrackerWrite(j, "deleting", w[j].processed_rows, <<"batch", w[j].batch_num>>,
                    NoError)
    /\ w' = [w EXCEPT ![j].pc = "loop", ![j].published = TRUE]
    /\ UNCHANGED <<envVars, stream, emitted, hookVars, products, nextId, lastCall, firstRun, jobs, files, uploaded, task,
                   fanout, ghost>>

\* Lines 211-216 and 304-311: done with the final count (0 for an empty table)
BulkSetDone(j) ==
    /\ Running(j, "bulk_delete", "set_done")
    /\ jobs' = update_status(jobs, j, "done", <<w[j].processed_rows>>, NoError)
    /\ w' = [w EXCEPT ![j].pc = "pub_done"]
    /\ UNCHANGED <<envVars, sseVars, hookVars, products, nextId, lastCall, firstRun, files, uploaded, task,
                   progress, fanout, ghost>>

\* Lines 218-223 and 313-318
BulkPubDone(j) ==
    /\ Running(j, "bulk_delete", "pub_done")
    /\ TrackerWrite(j, "done", w[j].processed_rows, <<"completed">>, NoError)
    /\ w' = [w EXCEPT ![j].pc = "fanout", ![j].published = TRUE]
    /\ UNCHANGED <<envVars, stream, emitted, hookVars, products, nextId, lastCall, firstRun, jobs, files, uploaded, task,
                   fanout, ghost>>

\* Lines 227-247 and 322-345: publish_event("product.bulk_deleted", ...), the
\* Redis client is closed and the task returns
BulkFanout(j) ==
    /\ Running(j, "bulk_delete", "fanout")
    /\ fanout' = Append(fanout, [event |-> "product.bulk_deleted", job_id |-> j,
                                 payload |->
                                     [status |-> "done",
                                      deleted_count |-> w[j].processed_rows,
                                      total_products |-> w[j].total_rows]])
    /\ task' = publish_event(task, webhook)
    /\ w' = [w EXCEPT ![j].pc = "returned", ![j].redis_open = FALSE,
                      ![j].result = "done"]
    /\ UNCHANGED <<envVars, sseVars, hookVars, products, nextId, lastCall, firstRun, jobs, files, uploaded,
                   progress, ghost>>

\* The statements of the try block that can raise: the database reads and
\* writes
BulkRaisePcs == {"start", "count", "set_parsing", "set_importing", "loop",
                 "upd_progress", "set_done"}

\* A statement raises: control goes to the except block of lines 351-382
BulkRaise(j) ==
    /\ task[j].state = "running"
    /\ w[j].kind = "bulk_delete"
    /\ w[j].pc \in BulkRaisePcs
    /\ w' = [w EXCEPT ![j].pc = "handler", ![j].exc = DbError]
    /\ ghost' = [ghost EXCEPT ![j].final_raise = @ \/ LastAttempt(j)]
    /\ UNCHANGED <<envVars, sseVars, hookVars, products, nextId, lastCall, firstRun, jobs, files, uploaded, task,
                   progress, fanout>>

\* Lines 358-363: the error text; on the last attempt the job is set to failed
BulkHandler(j) ==
    /\ Running(j, "bulk_delete", "handler")
    /\ w' = [w EXCEPT ![j].error_message = ErrorMessage(w[j].exc),
                      ![j].pc = "h_progress"]
    /\ jobs' = IF LastAttempt(j)
               THEN update_job_failed(jobs, j, ErrorMessage(w[j].exc))
               ELSE jobs
    /\ UNCHANGED <<envVars, sseVars, hookVars, products, nextId, lastCall, firstRun, files, uploaded, task,
                   progress, fanout, ghost>>

\* Lines 365-379: the error snapshot ("failed" on the last attempt, "deleting"
\* otherwise; nothing when the tracker was not created yet), then the Redis
\* client is closed
BulkHProgress(j) ==
    /\ Running(j, "bulk_delete", "h_progress")
    /\ IF w[j].tracker
       THEN TrackerWrite(j, IF LastAttempt(j) THEN "failed" ELSE "deleting",
                         HandlerCount(w[j]), <<>>, w[j].error_message)
       ELSE UNCHANGED <<progress, channel>>
    /\ w' = [w EXCEPT ![j].pc = "reraise", ![j].redis_open = FALSE,
                      ![j].published = @ \/ w[j].tracker]
    /\ UNCHANGED <<envVars, stream, emitted, hookVars, products, nextId, lastCall, firstRun, jobs, files, uploaded, task,
                   fanout, ghost>>

BulkStep(j) ==
    \/ BulkLookup(j)
    \/ BulkCount(j)
    \/ BulkSetParsing(j)
    \/ BulkPubPreparing(j)
    \/ BulkSetImporting(j)
    \/ BulkPubDeleting(j)
    \/ BulkDeleteBatch(j)
    \/ BulkUpdateProgress(j)
    \/ BulkPubProgress(j)
    \/ BulkSetDone(j)
    \/ BulkPubDone(j)
    \/ BulkFanout(j)
    \/ BulkRaise(j)
    \/ BulkHandler(j)
    \/ BulkHProgress(j)

-----------------------------------------------------------------------------
(* deliver_webhook_task                                                    *)

\* What the POST of lines 97-149 ends in: a response with its status code, or
\* an exception of the client (a timeout, a transport error)
HttpOutcomes ==
    { [is_success |-> TRUE, response_code |-> <<200>>],
      [is_success |-> FALSE, response_code |-> <<500>>],
      [is_success |-> FALSE, response_code |-> <<>>] }

\* Lines 69-93: the subscription is read; a missing one ends the task as
\* failed and a disabled one as skipped; otherwise a pending delivery log is
\* created and its id kept
WebhookFetch(t) ==
    /\ Running(t, "webhook", "start")
    /\ IF ~webhook.exists
       THEN /\ w' = [w EXCEPT ![t].pc = "returned", ![t].result = "failed"]
            /\ UNCHANGED deliveries
       ELSE IF ~webhook.enabled
       THEN /\ w' = [w EXCEPT ![t].pc = "returned", ![t].result = "skipped"]
            /\ UNCHANGED deliveries
       ELSE /\ deliveries' = Append(deliveries,
                                    [status |-> "pending", response_code |-> <<>>,
                                     completed_at |-> FALSE])
            /\ w' = [w EXCEPT ![t].pc = "post", ![t].delivery_id = Len(deliveries) + 1]
    /\ UNCHANGED <<envVars, sseVars, webhook, storeVars, jobs, files, uploaded, task, progress, fanout,
                   ghost>>

\* Lines 95-149: the POST; every exception of the client is caught here and
\* counted as a failed delivery
WebhookPost(t) ==
    /\ Running(t, "webhook", "post")
    /\ \E o \in HttpOutcomes :
           w' = [w EXCEPT ![t].pc = "record", ![t].is_success = o.is_success,
                          ![t].response_code = o.response_code]
    /\ UNCHANGED <<envVars, sseVars, hookVars, storeVars, jobs, files, uploaded, task, progress, fanout,
                   ghost>>

\* A faulty variant: the final status is stored without completed_at
WebhookRecordNoCompletedAt(t) ==
    /\ Running(t, "webhook", "record")
    /\ deliveries' = [deliveries EXCEPT ![w[t].delivery_id] =
           [status |-> IF w[t].is_success THEN "success" ELSE "failed",
            response_code |-> w[t].response_code, completed_at |-> FALSE]]
    /\ w' = [w EXCEPT ![t].pc = "returned",
                      ![t].result = IF w[t].is_success THEN "success" ELSE "failed"]
    /\ UNCHANGED <<envVars, sseVars, webhook, storeVars, jobs, files, uploaded, task, progress, fanout,
                   ghost>>

\* Lines 151-175: the delivery log gets its final status, the response code
\* and completed_at, and the task returns
WebhookRecord(t) ==
    /\ Running(t, "webhook", "record")
    /\ deliveries' = [deliveries EXCEPT ![w[t].delivery_id] =
           [status |-> IF w[t].is_success THEN "success" ELSE "failed",
            response_code |-> w[t].response_code, completed_at |-> TRUE]]
    /\ w' = [w EXCEPT ![t].pc = "returned",
                      ![t].result = IF w[t].is_success THEN "success" ELSE "failed"]
    /\ UNCHANGED <<envVars, sseVars, webhook, storeVars, jobs, files, uploaded, task, progress, fanout,
                   ghost>>

\* The statements outside the inner try that can raise: the database sessions
WebhookRaisePcs == {"start", "record"}

\* A database statement raises: control goes to the except block of lines
\* 181-206
WebhookRaise(t) ==
    /\ task[t].state = "running"
    /\ w[t].kind = "webhook"
    /\ w[t].pc \in WebhookRaisePcs
    /\ w' = [w EXCEPT ![t].pc = "handler", ![t].exc = DbError]
    /\ ghost' = [ghost EXCEPT ![t].final_raise = @ \/ LastAttempt(t)]
    /\ UNCHANGED <<envVars, sseVars, hookVars, storeVars, jobs, files, uploaded, task, progress, fanout>>

\* Lines 188-203: when a delivery log was created it is set to failed with
\* completed_at; this update may fail too, which is logged and ignored
WebhookHandler(t) ==
    /\ Running(t, "webhook", "handler")
    /\ \/ /\ w[t].delivery_id # 0
          /\ deliveries' = [deliveries EXCEPT ![w[t].delivery_id] =
                 [@ EXCEPT !.status = "failed", !.completed_at = TRUE]]
       \/ UNCHANGED deliveries
    /\ w' = [w EXCEPT ![t].pc = "reraise"]
    /\ UNCHANGED <<envVars, sseVars, webhook, storeVars, jobs, files, uploaded, task, progress, fanout,
                   ghost>>

WebhookStep(t) ==
    \/ WebhookFetch(t)
    \/ WebhookPost(t)
    \/ WebhookRecord(t)
    \/ WebhookRaise(t)
    \/ WebhookHandler(t)

-----------------------------------------------------------------------------
(* GET /progress/{job_id}: the event_generator of api/progress.py          *)

\* import_service.get_job(job_id) of line 84: the row the request saw
\* (job.status.value, job.processed_rows, job.total_rows are read from it)
\* pubsub = redis.pubsub() of line 102 is made before the try block
StreamConnect(j) ==
    /\ stream.pc = "none"
    /\ jobs[j].exists
    /\ stream' = [NoStream EXCEPT !.pc = "subscribe", !.job_id = j, !.job = jobs[j],
                                  !.handle = "open"]
    /\ UNCHANGED <<envVars, channel, emitted, hookVars, storeVars, jobVars>>

\* Line 107: await pubsub.subscribe(channel)
StreamSubscribeAfterInitial ==
    /\ stream.pc = "subscribe"
    /\ stream' = [stream EXCEPT !.pc = "initial"]
    /\ UNCHANGED <<envVars, channel, emitted, hookVars, storeVars, jobVars>>

StreamSubscribe ==
    /\ stream.pc = "subscribe"
    /\ stream' = [stream EXCEPT !.pc = "initial", !.subscribed = TRUE]
    /\ UNCHANGED <<envVars, channel, emitted, hookVars, storeVars, jobVars>>

\* Lines 116-123: the payload made from the job row when Redis holds no
\* snapshot
initial_data(job) ==
    [k \in {"status", "stage", "processed_rows", "total_rows", "progress_percent"} |->
        CASE k = "status" -> job.status
          [] k = "stage" -> "queued"
          [] k = "processed_rows" -> job.processed_rows
          [] k = "total_rows" -> job.total_rows
          [] OTHER -> 0]

ProgressEvent(data) == [type |-> "progress", data |-> data]

\* Line 186: the payload {"event": "close", "job_id": ...}
CloseEvent == [type |-> "close", data |-> NoHash]

\* Lines 195-199: the payload {"event": "error", ...}
ErrorEvent == [type |-> "error", data |-> NoHash]

\* Lines 110-128: the initial event is the stored snapshot, or the payload
\* made from the job row; then is_terminal = False and last_poll_time is the
\* current time, whatever the status of the initial event
StreamInitial ==
    /\ stream.pc = "initial"
    /\ Len(emitted) < MaxEmitted
    /\ emitted' = Append(emitted,
           ProgressEvent(IF progress[stream.job_id] # NoHash
                         THEN progress[stream.job_id]
                         ELSE initial_data(stream.job)))
    /\ stream' = [stream EXCEPT !.pc = "wait", !.is_terminal = FALSE, !.elapsed = 0]
    /\ UNCHANGED <<envVars, channel, hookVars, storeVars, jobVars>>

\* Lines 134-152: get_message returns a published message: it is emitted,
\* and a terminal status ends the loop
StreamMessage ==
    /\ stream.pc = "wait"
    /\ ~stream.is_terminal
    /\ channel # <<>>
    /\ Len(emitted) < MaxEmitted
    /\ emitted' = Append(emitted, ProgressEvent(Head(channel)))
    /\ channel' = Tail(channel)
    /\ stream' = IF Head(channel)["status"] \in {"done", "failed"}
                 THEN [stream EXCEPT !.pc = "close", !.is_terminal = TRUE, !.elapsed = 0,
                                     !.live = TRUE]
                 ELSE [stream EXCEPT !.pc = "heartbeat", !.live = TRUE]
    /\ UNCHANGED <<envVars, hookVars, storeVars, jobVars>>

\* Lines 134-137 with no message on the channel: get_message returns None
\* within its timeout, the branch of lines 139-152 is not taken and the
\* except block of line 154 is not entered
StreamNoMessage ==
    /\ stream.pc = "wait"
    /\ ~stream.is_terminal
    /\ channel = <<>>
    /\ stream' = [stream EXCEPT !.pc = "heartbeat"]
    /\ UNCHANGED <<envVars, channel, emitted, hookVars, storeVars, jobVars>>

\* Lines 154-176: wait_for gives up after its timeout; when poll_interval
\* has passed since the last poll, the stored snapshot is read and, if there
\* is one, emitted, a terminal status ending the loop; last_poll_time
\* becomes the current time
StreamTimeout ==
    /\ stream.pc = "wait"
    /\ ~stream.is_terminal
    /\ channel = <<>>
    /\ LET current_time == Min(stream.elapsed + WAIT_TIMEOUT, poll_interval)
           snapshot == progress[stream.job_id]
       IN  IF current_time >= poll_interval
           THEN IF snapshot # NoHash
                THEN /\ Len(emitted) < MaxEmitted
                     /\ emitted' = Append(emitted, ProgressEvent(snapshot))
                     /\ stream' = IF snapshot["status"] \in {"done", "failed"}
                                  THEN [stream EXCEPT !.pc = "close",
                                                      !.is_terminal = TRUE,
                                                      !.elapsed = 0]
                                  ELSE [stream EXCEPT !.pc = "heartbeat", !.elapsed = 0]
                ELSE /\ stream' = [stream EXCEPT !.pc = "heartbeat", !.elapsed = 0]
                     /\ UNCHANGED emitted
           ELSE /\ stream' = [stream EXCEPT !.pc = "heartbeat", !.elapsed = current_time]
                /\ UNCHANGED emitted
    /\ UNCHANGED <<envVars, channel, hookVars, storeVars, jobVars>>

\* Lines 178-182: the heartbeat comment (no event) and asyncio.sleep(0.1)
StreamHeartbeat ==
    /\ stream.pc = "heartbeat"
    /\ ~stream.is_terminal
    /\ stream' = [stream EXCEPT !.pc = "wait",
                                !.elapsed = Min(@ + HEARTBEAT_SLEEP, poll_interval)]
    /\ UNCHANGED <<envVars, channel, emitted, hookVars, storeVars, jobVars>>

\* Lines 184-186: after the loop the close event is emitted; the generator
\* then leaves the try block
StreamClose ==
    /\ stream.pc = "close"
    /\ emitted' = Append(emitted, CloseEvent)
    /\ stream' = [stream EXCEPT !.pc = "finally", !.ended = "closed"]
    /\ UNCHANGED <<envVars, channel, hookVars, storeVars, jobVars>>

\* The places where the generator is suspended (an await or a yield)
StreamSuspendedPcs == {"subscribe", "initial", "wait", "heartbeat", "close", "error"}

\* A faulty variant: the cancelled generator is dropped where it stands
StreamCancelNoFinally ==
    /\ stream.pc \in StreamSuspendedPcs
    /\ stream' = [stream EXCEPT !.pc = "ended", !.ended = "cancelled", !.elapsed = 0]
    /\ UNCHANGED <<envVars, channel, emitted, hookVars, storeVars, jobVars>>

\* Lines 188-190: the client goes away: CancelledError is raised where the
\* generator is suspended and re-raised, which runs the finally block
StreamCancel ==
    /\ stream.pc \in StreamSuspendedPcs
    /\ stream' = [stream EXCEPT !.pc = "finally", !.ended = "cancelled", !.elapsed = 0]
    /\ UNCHANGED <<envVars, channel, emitted, hookVars, storeVars, jobVars>>

\* Line 192: a Redis call of the try block (subscribe, get_progress,
\* get_message) raises
StreamRaise ==
    /\ stream.pc \in {"subscribe", "initial", "wait"}
    /\ stream' = [stream EXCEPT !.pc = "error", !.elapsed = 0]
    /\ UNCHANGED <<envVars, channel, emitted, hookVars, storeVars, jobVars>>

\* Lines 192-200: the error event is emitted and the exception re-raised
StreamErrorEvent ==
    /\ stream.pc = "error"
    /\ emitted' = Append(emitted, ErrorEvent)
    /\ stream' = [stream EXCEPT !.pc = "finally", !.ended = "error"]
    /\ UNCHANGED <<envVars, channel, hookVars, storeVars, jobVars>>

\* Lines 202-205: finally: await pubsub.unsubscribe(channel), which is taken
\* to succeed; what the subscription had queued is gone with it
StreamUnsubscribe ==
    /\ stream.pc = "finally"
    /\ stream' = [stream EXCEPT !.pc = "aclose", !.subscribed = FALSE]
    /\ channel' = <<>>
    /\ UNCHANGED <<envVars, emitted, hookVars, storeVars, jobVars>>

\* Line 206: await pubsub.aclose()
StreamAclose ==
    /\ stream.pc = "aclose"
    /\ stream' = [stream EXCEPT !.pc = "ended", !.handle = "closed"]
    /\ UNCHANGED <<envVars, channel, emitted, hookVars, storeVars, jobVars>>

StreamStep ==
    \/ StreamSubscribe
    \/ StreamInitial
    \/ StreamMessage
    \/ StreamNoMessage
    \/ StreamTimeout
    \/ StreamHeartbeat
    \/ StreamClose
    \/ StreamCancel
    \/ StreamRaise
    \/ StreamErrorEvent
    \/ StreamUnsubscribe
    \/ StreamAclose

-----------------------------------------------------------------------------
(* The repository calls, one transaction each                              *)

\* The objects batch_upsert is called with
BatchProducts ==
    { [sku |-> <<"a">>, name |-> <<"x">>, description |-> None, active |-> TRUE],
      [sku |-> <<"A">>, name |-> <<"y">>, description |-> <<"d">>, active |-> FALSE],
      [sku |-> <<"b">>, name |-> <<"x">>, description |-> None, active |-> TRUE],
      [sku |-> <<" ">>, name |-> <<"x">>, description |-> None, active |-> TRUE],
      [sku |-> <<>>, name |-> <<"y">>, description |-> None, active |-> TRUE] }

Batches == SeqsUpTo(BatchProducts, MaxBatch)

\* The SKUs create and update are called with
RepoSkus == {<<"a">>, <<"A">>, <<"b">>}

\* The ProductUpdate payloads: the fields that are provided
Updates ==
    {[k \in {"sku"} |-> sku] : sku \in RepoSkus}
        \cup {[k \in {"name"} |-> <<"y">>], [k \in {"active"} |-> FALSE]}

\* _process_batch: batch_upsert in a transaction of its own
RepoBatchUpsert(batch) ==
    /\ LET r == batch_upsert(products, nextId, batch, clock)
       IN  /\ r.nextId <= MaxId + 1
           /\ products' = r.products
           /\ nextId' = r.nextId
    /\ lastCall' = [op |-> "batch_upsert", batch |-> batch]
    /\ UNCHANGED <<firstRun, jobVars, hookVars, envVars, sseVars>>

\* ProductRepository.create: the row is inserted, or the unique index raises
\* and the transaction is rolled back
RepoCreate(sku) ==
    /\ LET r == create(products, nextId, ProductCreate(sku, <<"x">>, None, TRUE), clock)
       IN  /\ r.nextId <= MaxId + 1
           /\ products' = r.products
           /\ nextId' = r.nextId
    /\ lastCall' = [op |-> "create", batch |-> <<>>]
    /\ UNCHANGED <<firstRun, jobVars, hookVars, envVars, sseVars>>

\* ProductRepository.update
RepoUpdate(product_id, upd) ==
    /\ products' = update(products, product_id, upd).products
    /\ lastCall' = [op |-> "update", batch |-> <<>>]
    /\ UNCHANGED <<nextId, firstRun, jobVars, hookVars, envVars, sseVars>>

\* ProductRepository.delete
RepoDelete(product_id) ==
    /\ products' = delete(products, product_id)
    /\ lastCall' = [op |-> "delete", batch |-> <<>>]
    /\ UNCHANGED <<nextId, firstRun, jobVars, hookVars, envVars, sseVars>>

\* The bulk-delete worker's transaction on up to BATCH_SIZE selected ids
RepoDeleteByIds(ids) ==
    /\ ids # {}
    /\ Cardinality(ids) <= DELETE_BATCH_SIZE
    /\ products' = delete_by_ids(products, ids)
    /\ lastCall' = [op |-> "delete_by_ids", batch |-> <<>>]
    /\ UNCHANGED <<nextId, firstRun, jobVars, hookVars, envVars, sseVars>>

\* Time passes: the next reading of the clock is later
Tick ==
    /\ clock < MaxClock
    /\ clock' = clock + 1
    /\ UNCHANGED <<storeVars, jobVars, hookVars, sseVars, http, call, outage, sessions>>

-----------------------------------------------------------------------------
(* Specifications                                                          *)

Init ==
    /\ products = {}
    /\ nextId = 1
    /\ lastCall = [op |-> "none", batch |-> <<>>]
    /\ firstRun = {}
    /\ jobs = [j \in JobIds |-> NoJob]
    /\ files = [j \in JobIds |-> NoFile]
    /\ uploaded = [j \in JobIds |-> NoFile]
    /\ task = [j \in TaskIds |-> NoTask]
    /\ w = [j \in TaskIds |-> NoLocals]
    /\ progress = [j \in JobIds |-> NoHash]
    /\ fanout = <<>>
    /\ ghost = [j \in TaskIds |-> NoGhost]
    /\ webhook = NoWebhook
    /\ deliveries = <<>>
    /\ clock = 0
    /\ http = NoResponse
    /\ stream = NoStream
    /\ channel = <<>>
    /\ emitted = <<>>
    /\ call = NoCall
    /\ outage = FALSE
    /\ sessions = [s \in SessionIds |-> NoSession]

\* One work item per behaviour: a file is uploaded to the empty store; or
\* products are created through the API and a bulk delete is requested; or a
\* subscription is made and the creation of a product is delivered to it.
\* Then the workers run.
Next ==
    \/ Idle /\ products = {} /\ ~webhook.exists /\ \E f \in Files : UploadCsv("j1", f)
    \/ Idle /\ products = {} /\ ApiCreateWebhook
    \/ Idle /\ \E sku \in ApiSkus : ApiCreateProduct(sku)
    \/ Idle /\ ~webhook.exists /\ RequestBulkDelete("j2")
    \/ ApiDisableWebhook
    \/ \E t \in TaskIds : Deliver(t)
    \/ \E j \in JobIds : ImportStep(j)
    \/ \E j \in JobIds : BulkStep(j)
    \/ \E t \in TaskIds : WebhookStep(t)
    \/ \E t \in TaskIds : Reraise(t)
    \/ \E t \in TaskIds : Ack(t)
    \/ \E t \in TaskIds : WorkerLost(t)

Spec == Init /\ [][Next]_vars

\* The repository under any sequence of calls: the transactions of concurrent
\* jobs and requests, in the order in which they commit
NextStore ==
    \/ \E batch \in Batches : RepoBatchUpsert(batch)
    \/ \E sku \in RepoSkus : RepoCreate(sku)
    \/ \E id \in 1..MaxId, upd \in Updates : RepoUpdate(id, upd)
    \/ \E id \in 1..MaxId : RepoDelete(id)
    \/ \E ids \in SUBSET {p.id : p \in products} : RepoDeleteByIds(ids)

SpecStore == Init /\ [][NextStore]_vars

\* The same file ingested twice in sequence on the empty store, each run
\* without an exception: the second upload follows the first run's
\* acknowledgement
NextR1 ==
    \/ Idle /\ products = {} /\ \E f \in Files : UploadCsv("j1", f)
    \/ task["j1"].state = "acked" /\ UploadCsv("j2", uploaded["j1"].rows)
    \/ \E j \in JobIds : Deliver(j)
    \/ \E j \in JobIds : ImportRun(j)
    \/ \E j \in JobIds : Ack(j)

SpecR1 == Init /\ [][NextR1]_vars

\* One upload into the empty table, run by an attempt that no database or file
\* error interrupts, while the progress store and the webhook queue may stop
\* answering at any moment
RedisOutage ==
    /\ ~outage
    /\ outage' = TRUE
    /\ UNCHANGED <<storeVars, jobVars, hookVars, sseVars, clock, http, call, sessions>>

NextCollateral ==
    \/ Idle /\ products = {} /\ \E f \in Files : UploadCsv("j1", f)
    \/ Idle /\ ApiCreateWebhook
    \/ RedisOutage
    \/ Deliver("j1")
    \/ ImportRun("j1")
    \/ Ack("j1")

SpecCollateral == Init /\ [][NextCollateral]_vars

\* Work items that no endpoint of this service queued: an ingest of a file for
\* a job id that has no row, and a bulk delete for a job id that has no row or
\* whose row is an import
BadIngestMessage(j) ==
    /\ task[j].state = "none"
    /\ ~jobs[j].exists
    /\ \E f \in {g \in Files : Len(g) <= 1} : files' = [files EXCEPT ![j] = FileOf(f)]
    /\ task' = [task EXCEPT ![j] = [kind |-> "import", state |-> "ready", retries |-> 0]]
    /\ UNCHANGED <<envVars, sseVars, hookVars, storeVars, jobs, uploaded, w, progress, fanout,
                   ghost>>

BadBulkDeleteMessage(j) ==
    /\ task[j].state \in {"none", "acked"}
    /\ task[j].kind # "bulk_delete"
    /\ ~jobs[j].exists \/ jobs[j].job_type # "bulk_delete"
    /\ task' = [task EXCEPT ![j] = [kind |-> "bulk_delete", state |-> "ready",
                                    retries |-> 0]]
    /\ UNCHANGED <<envVars, sseVars, hookVars, storeVars, jobs, files, uploaded, w, progress,
                   fanout, ghost>>

\* The try block of bulk_delete_all_products_task
BulkRun(j) ==
    \/ BulkLookup(j)
    \/ BulkCount(j)
    \/ BulkSetParsing(j)
    \/ BulkPubPreparing(j)
    \/ BulkSetImporting(j)
    \/ BulkPubDeleting(j)
    \/ BulkDeleteBatch(j)
    \/ BulkUpdateProgress(j)
    \/ BulkPubProgress(j)
    \/ BulkSetDone(j)
    \/ BulkPubDone(j)
    \/ BulkFanout(j)

\* An upload and a bulk-delete request served without database faults, with
\* such work items arriving in between
NextBadMessage ==
    \/ Idle /\ products = {} /\ \E f \in Files : UploadCsv("j1", f)
    \/ task["j1"].state = "acked" /\ RequestBulkDelete("j2")
    \/ BadIngestMessage("j2")
    \/ \E j \in JobIds : BadBulkDeleteMessage(j)
    \/ \E j \in JobIds : Deliver(j)
    \/ \E j \in JobIds : ImportRun(j)
    \/ \E j \in JobIds : BulkRun(j)
    \/ \E j \in JobIds : Ack(j)

SpecBadMessage == Init /\ [][NextBadMessage]_vars

\* A bulk delete served without database faults while another session
\* inserts products
NextConcurrentDelete ==
    \/ \E sku \in ApiSkus : RepoCreate(sku)
    \/ Idle /\ RequestBulkDelete("j2")
    \/ Deliver("j2")
    \/ BulkRun("j2")
    \/ Ack("j2")

SpecConcurrentDelete == Init /\ [][NextConcurrentDelete]_vars

\* ImportRepository.increment_processed_rows called from a session of its own,
\* one statement at a time: session.get loads the row, the sum is computed in
\* the caller, and the commit writes the computed value back
IncrementEnter(s, count) ==
    /\ sessions[s].pc = "idle"
    /\ jobs["j1"].exists
    /\ sessions' = [sessions EXCEPT ![s] = [pc |-> "get", count |-> count, read |-> 0]]
    /\ UNCHANGED <<storeVars, jobVars, hookVars, sseVars, clock, http, call, outage>>

IncrementGet(s) ==
    /\ sessions[s].pc = "get"
    /\ sessions' = [sessions EXCEPT ![s].pc = "commit",
                                    ![s].read = jobs["j1"].processed_rows]
    /\ UNCHANGED <<storeVars, jobVars, hookVars, sseVars, clock, http, call, outage>>

IncrementCommit(s) ==
    /\ sessions[s].pc = "commit"
    /\ jobs' = [jobs EXCEPT !["j1"].processed_rows = sessions[s].read + sessions[s].count]
    /\ sessions' = [sessions EXCEPT ![s].pc = "returned"]
    /\ UNCHANGED <<storeVars, files, uploaded, task, w, progress, fanout, ghost, hookVars,
                   sseVars, clock, http, call, outage>>

NextIncrement ==
    \/ Idle /\ \E f \in {g \in Files : Len(g) <= 1} : UploadCsv("j1", f)
    \/ \E s \in SessionIds, count \in 1..MaxBatch : IncrementEnter(s, count)
    \/ \E s \in SessionIds : IncrementGet(s)
    \/ \E s \in SessionIds : IncrementCommit(s)

SpecIncrement == Init /\ [][NextIncrement]_vars

\* upload_csv on a valid file while the broker refuses the work item: the job
\* row is created and committed (upload.py 140-146), apply_async raises inside
\* enqueue_import_task (150-154), and the except block removes the saved file
\* and answers 500 (179-187)
UploadCsvEnqueueFails(j, f) ==
    /\ ~jobs[j].exists
    /\ task[j].state = "none"
    /\ validate_file(f).is_valid
    /\ jobs' = [jobs EXCEPT ![j] = create_job(<<validate_file(f).total_rows>>)]
    /\ uploaded' = [uploaded EXCEPT ![j] = FileOf(f)]
    /\ http' = [endpoint |-> "upload", status_code |-> 500, job_id |-> "none"]
    /\ UNCHANGED <<clock, call, outage, sessions, sseVars, hookVars, storeVars, files, task, w,
                   progress, fanout, ghost>>

\* Uploads served while the broker may be down, and the worker of the ingest
\* queue
NextEnqueue ==
    \/ Idle /\ products = {} /\ \E f \in Files : UploadCsv("j1", f)
    \/ \E f \in Files : UploadCsvEnqueueFails("j2", f)
    \/ \E j \in JobIds : Deliver(j)
    \/ \E j \in JobIds : ImportRun(j)
    \/ \E j \in JobIds : Ack(j)

SpecEnqueue == Init /\ [][NextEnqueue]_vars

\* One upload whose work item the broker keeps delivering to a worker that is
\* never lost and always takes its next step; a statement of the task may
\* still raise
NextLive ==
    \/ Idle /\ products = {} /\ \E f \in Files : UploadCsv("j1", f)
    \/ Deliver("j1")
    \/ ImportStep("j1")
    \/ Reraise("j1")
    \/ Ack("j1")

SpecLive ==
    /\ Init /\ [][NextLive]_vars
    /\ WF_vars(Deliver("j1"))
    /\ WF_vars(ImportStep("j1"))
    /\ WF_vars(Reraise("j1"))
    /\ WF_vars(Ack("j1"))

\* The batches whose rows all have a SKU
SkuBatches ==
    {batch \in Batches :
        \A i \in DOMAIN batch : batch[i].sku # <<>> /\ Strip(batch[i].sku) # <<>>}

\* batch_upsert called again and again while time passes
NextUpsert ==
    \/ Tick
    \/ \E batch \in SkuBatches : RepoBatchUpsert(batch)

SpecUpsert == Init /\ [][NextUpsert]_vars

\* The product, webhook and bulk-delete endpoints, and the deliveries they
\* cause
NextApi ==
    \/ bulk_delete_all_products
    \/ ApiCreateWebhook
    \/ ApiDisableWebhook
    \/ \E sku \in ApiSkus : ApiCreateProduct(sku)
    \/ \E t \in TaskIds : Deliver(t)
    \/ \E t \in TaskIds : WebhookStep(t)
    \/ \E t \in TaskIds : Reraise(t)
    \/ \E t \in TaskIds : Ack(t)

SpecApi == Init /\ [][NextApi]_vars

\* The file followed while a stream is open: the header line alone
StreamFiles == {f \in Files : Len(f) = 0}

\* The tracker reads a later time at each write, as long as the clock has
\* later readings
FreshReading(j) ==
    \/ progress'[j] = progress[j]
    \/ progress[j] = NoHash
    \/ progress[j]["updated_at"] < clock
    \/ clock = MaxClock

\* In the runs followed, an attempt fails at the first statement after the
\* job lookup or not at all
RaiseAtSetParsing(j) ==
    w'[j].pc = "handler" => w[j].pc = "set_parsing"

\* One file is uploaded and ingested by the worker, with retries, while a
\* client requests the progress stream of its job at any moment
NextStream ==
    \/ Idle /\ \E f \in StreamFiles : UploadCsv("j1", f)
    \/ Deliver("j1")
    \/ ImportStep("j1") /\ FreshReading("j1") /\ RaiseAtSetParsing("j1")
    \/ Reraise("j1")
    \/ Ack("j1")
    \/ Tick /\ progress["j1"] # NoHash /\ progress["j1"]["updated_at"] = clock
    \/ StreamConnect("j1")
    \/ StreamStep

SpecStream == Init /\ [][NextStream]_vars

\* CSVValidator.REQUIRED_HEADERS
REQUIRED_HEADERS == {"sku", "name"}

\* The upload requests followed: the file name ends in .csv or not, the
\* client declares the size or not (0), the size in MB, the header line, and
\* the data rows
UploadRequests ==
    [csv_name : BOOLEAN, declared : BOOLEAN, size_mb : {50, 300, 600},
     headers : {{"sku", "name", "description", "active"}, {"sku", "description"},
                {"name", "active"}},
     rows : Files]

\* CSVValidator.validate_file on the saved file: the size check of lines
\* 64-70, the header check of lines 82-90, then the sampled rows
validate_upload(req) ==
    IF req.size_mb > MAX_FILE_SIZE_MB
    THEN [is_valid |-> FALSE, errors |-> [kind |-> "file_size", headers |-> {}]]
    ELSE IF REQUIRED_HEADERS \ req.headers # {}
    THEN [is_valid |-> FALSE,
          errors |-> [kind |-> "missing_headers",
                      headers |-> REQUIRED_HEADERS \ req.headers]]
    ELSE IF ~validate_file(req.rows).is_valid
    THEN [is_valid |-> FALSE, errors |-> [kind |-> "rows", headers |-> {}]]
    ELSE [is_valid |-> TRUE, errors |-> [kind |-> "none", headers |-> {}]]

\* What a request leaves behind and is answered with
Answer(status_code, errors, temp_file, accepted) ==
    [status_code |-> status_code, errors |-> errors, temp_file |-> temp_file,
     job_created |-> accepted, enqueued |-> accepted]

\* A faulty variant: the saved file stays when validation fails
RejectInvalidKeepFile(errors) == Answer(400, errors, TRUE, FALSE)

\* upload.py lines 124-134: validation failed: the saved file is unlinked
\* and 400 is raised with the validator's errors
RejectInvalid(errors) == Answer(400, errors, FALSE, FALSE)

\* upload_csv, lines 76-166: the file name check, the declared size, the
\* save, the size of the saved file, the validation, and then the job row
\* and the work item.  Nothing raises HTTPException after the job is created.
upload_csv(req) ==
    LET none == [kind |-> "none", headers |-> {}]
    IN  IF ~req.csv_name
        THEN Answer(400, [kind |-> "file_type", headers |-> {}], FALSE, FALSE)
        ELSE IF req.declared /\ req.size_mb > max_upload_size_mb
        THEN Answer(413, none, FALSE, FALSE)
        ELSE IF req.size_mb > max_upload_size_mb
        THEN Answer(413, none, FALSE, FALSE)
        ELSE IF ~validate_upload(req).is_valid
        THEN RejectInvalid(validate_upload(req).errors)
        ELSE Answer(202, none, TRUE, TRUE)

\* One upload request
UploadCall ==
    /\ call = NoCall
    /\ \E req \in UploadRequests :
           call' = [op |-> "upload_csv", req |-> req, result |-> upload_csv(req)]
    /\ UNCHANGED <<clock, http, outage, sessions, sseVars, hookVars, storeVars, jobVars>>

\* The functions followed on their own, each called with any arguments
\* ImportStatus, in the order of the life of a job; done and failed are both last
ImportStatuses == {"queued", "uploading", "parsing", "importing", "done", "failed"}

StatusRank(status) ==
    CASE status = "queued" -> 0
      [] status = "uploading" -> 1
      [] status = "parsing" -> 2
      [] status = "importing" -> 3
      [] OTHER -> 4

\* ImportRepository.update_status called on a table whose row j1, when it
\* exists, is in any status and was last updated at time 0. The row's
\* updated_at is set to the time of the call when the row exists (line 84).
UpdateStatusCall ==
    /\ call = NoCall
    /\ \E exists \in BOOLEAN, old \in ImportStatuses, status \in ImportStatuses,
          processed_rows \in {NoInt, <<2>>}, error_message \in {NoError, ErrorMessage(DbError)},
          now \in 1..MaxClock :
           LET row == IF exists
                      THEN [create_job(<<3>>) EXCEPT !.status = old, !.processed_rows = 1]
                      ELSE NoJob
               table == [j \in JobIds |-> IF j = "j1" THEN row ELSE NoJob]
               after == update_status(table, "j1", status, processed_rows, error_message)
           IN  call' = [op |-> "update_status", before |-> row, status |-> status,
                        processed_rows |-> processed_rows,
                        error_message |-> error_message,
                        updated_at_before |-> 0,
                        result |-> after["j1"],
                        updated_at |-> IF row.exists THEN now ELSE 0]
    /\ UNCHANGED <<clock, http, outage, sessions, sseVars, hookVars, storeVars, jobVars>>

\* The texts of an HTTP response or of an exception
BodyTexts == {[i \in 1..n |-> "x"] : n \in 0..MaxBody}

\* The mark put after a response text that was cut
TruncatedMark == <<".", ".", ".", " ", "(", "t", "r", "u", "n", "c", "a", "t", "e", "d", ")">>

\* response_body as deliver_webhook_task computes it: body_text of a response
\* that was received, or str(e) of the exception that the POST raised
response_body(kind, text) ==
    IF kind = "response"
    THEN IF Len(text) > MAX_RESPONSE_BODY_LENGTH
         THEN SubSeq(text, 1, MAX_RESPONSE_BODY_LENGTH) \o TruncatedMark
         ELSE text
    ELSE SubSeq(text, 1, Min(MAX_RESPONSE_BODY_LENGTH, Len(text)))

ResponseBodyCall ==
    /\ call = NoCall
    /\ \E kind \in {"response", "TimeoutException", "RequestError", "Exception"},
          text \in BodyTexts :
           call' = [op |-> "response_body", kind |-> kind, text |-> text,
                    result |-> response_body(kind, text)]
    /\ UNCHANGED <<clock, http, outage, sessions, sseVars, hookVars, storeVars, jobVars>>

\* Values of the active column of a row whose other columns are filled
ActiveValues ==
    {<<"t">>, <<"y", "e", "s">>, <<"N", "o">>, <<" ", "0", " ">>, <<"F">>,
     <<"m">>, <<"o", "n">>, <<" ">>, <<>>}

\* The row is given to CSVValidator._parse_bool as _validate_sample_rows does
\* and to _parse_csv_row as the worker does
ActiveCall ==
    /\ call = NoCall
    /\ \E value \in ActiveValues :
           LET product == parse_csv_row([sku |-> <<"a">>, name |-> <<"x">>,
                                        description |-> <<>>, active |-> value])
           IN  call' = [op |-> "active", value |-> value,
                        validator |-> parse_bool(value),
                        worker |-> IF ~product.ok THEN "ValueError"
                                   ELSE IF product.active THEN "true" ELSE "false"]
    /\ UNCHANGED <<clock, http, outage, sessions, sseVars, hookVars, storeVars, jobVars>>

NextCalls ==
    \/ PublishEventCall
    \/ UploadCall
    \/ UpdateStatusCall
    \/ ResponseBodyCall
    \/ ActiveCall

SpecCalls == Init /\ [][NextCalls]_vars

-----------------------------------------------------------------------------
(* Properties of the job lifecycle under Spec                              *)

Terminal == {"done", "failed"}

HandlerPcs == {"handler", "h_fanout", "h_unlink", "h_progress", "reraise"}

\* The attempt of job j is inside the except block of process_csv_import
InImportHandler(j) ==
    /\ task[j].state = "running"
    /\ w[j].kind = "import"
    /\ w[j].pc \in HandlerPcs

\* C1: once a job row's status is done or failed, no later step of any worker
\* changes the row's status or processed_rows (re-delivery after a lost worker
\* and the file-missing path included).
C1_TerminalRowFrozen ==
    [][\A j \in JobIds :
          jobs[j].status \in Terminal =>
              /\ jobs'[j].status = jobs[j].status
              /\ jobs'[j].processed_rows = jobs[j].processed_rows]_vars

\* The re-delivered attempt of a finished ingest job has found its file gone
\* and has set the done job to failed
C1_DoneThenFailed ==
    \E j \in JobIds :
        /\ ghost[j].lost >= 1
        /\ w[j].pc = "returned"
        /\ w[j].result = "failed"
        /\ jobs[j].status = "failed"
        /\ \E i \in 1..Len(fanout) :
               fanout[i].job_id = j /\ fanout[i].event = "import.completed"

\* C2: while an ingest attempt that raised has retries left, its except block
\* leaves the job row, the fan-out and the input file as they are, and the
\* attempt ends by re-raising, after which the work item is ready again with
\* one more retry counted.
C2_NoFailureWhileRetriesRemain ==
    [][\A j \in JobIds :
          (InImportHandler(j) /\ task[j].retries < max_retries) =>
              /\ jobs'[j] = jobs[j]
              /\ fanout' = fanout
              /\ files'[j] = files[j]
              /\ (w[j].pc = "reraise" /\ ghost'[j].raised # ghost[j].raised) =>
                     /\ task'[j].state = "ready"
                     /\ task'[j].retries = task[j].retries + 1]_vars

\* An attempt that raised after a batch was counted is about to re-raise with
\* retries left
C2_Witness ==
    \E j \in JobIds :
        /\ InImportHandler(j)
        /\ w[j].pc = "reraise"
        /\ task[j].retries < max_retries
        /\ jobs[j].status = "importing"
        /\ jobs[j].processed_rows > 0

\* C3: when an ingest attempt raises on the last permitted attempt, then, once
\* its except block is through, the job row is failed with the error text built
\* from the exception's type and message, the snapshot has status failed with
\* that error_message, import.failed has been fanned out and the file is gone.
C3_FinalFailureEffects ==
    \A j \in JobIds :
        (InImportHandler(j) /\ w[j].pc = "reraise" /\ LastAttempt(j)) =>
            /\ jobs[j].status = "failed"
            /\ jobs[j].error_message = ErrorMessage(w[j].exc)
            /\ jobs[j].error_message # NoError
            /\ "error_message" \in DOMAIN progress[j]
            /\ progress[j]["status"] = "failed"
            /\ progress[j]["error_message"] = ErrorMessage(w[j].exc)
            /\ \E i \in 1..Len(fanout) :
                   fanout[i].job_id = j /\ fanout[i].event = "import.failed"
            /\ ~files[j].exists

\* The last attempt raised at the job lookup, before the tracker existed: the
\* row is failed and the file gone, and no failed snapshot was written
C3_FailedWithoutSnapshot ==
    \E j \in JobIds :
        /\ InImportHandler(j)
        /\ w[j].pc = "reraise"
        /\ LastAttempt(j)
        /\ ~w[j].tracker
        /\ jobs[j].status = "failed"
        /\ ~files[j].exists
        /\ progress[j] = NoHash

\* C4: a work item of the ingest, bulk-delete or webhook-delivery task is
\* executed at most 4 times when its attempts raise (the first delivery and 3
\* retries; an attempt cut short by a lost worker is delivered again and is
\* not counted), and after the 4th raised attempt it is dropped: no further
\* attempt is scheduled.
C4_AtMostFourExecutions ==
    \A t \in TaskIds :
        /\ ghost[t].raised <= max_retries + 1
        /\ ghost[t].runs <= max_retries + 1 + ghost[t].lost
        /\ ghost[t].raised = max_retries + 1 => task[t].state = "dead"
        /\ task[t].state = "dead" => ghost[t].raised = max_retries + 1

\* An ingest work item was executed 4 times, each attempt raised, and it is
\* dropped
C4_Witness ==
    /\ task["j1"].kind = "import"
    /\ task["j1"].state = "dead"
    /\ ghost["j1"].runs = 4
    /\ ghost["j1"].raised = 4

\* The same for a bulk-delete work item
C4_WitnessBulkDelete ==
    /\ task["j2"].kind = "bulk_delete"
    /\ task["j2"].state = "dead"
    /\ ghost["j2"].runs = 4
    /\ ghost["j2"].raised = 4

\* The same for a webhook-delivery work item
C4_WitnessWebhook ==
    /\ task["d1"].kind = "webhook"
    /\ task["d1"].state = "dead"
    /\ ghost["d1"].runs = 4
    /\ ghost["d1"].raised = 4

\* Every data row of the file is one the worker's parser accepts
AllRowsValid(rows) == \A i \in 1..Len(rows) : parse_csv_row(rows[i]).ok

\* C5: when no attempt of an ingest job has raised without a retry left, the
\* job is not failed as long as its file is there, and an attempt that returns
\* done after at least one raised attempt leaves the job done with the final
\* count; for a file of valid rows only, that count is total_rows.
C5_RetryThenSuccess ==
    \A j \in JobIds :
        (jobs[j].exists /\ jobs[j].job_type = "import" /\ ~ghost[j].final_raise) =>
            /\ files[j].exists => jobs[j].status # "failed"
            /\ (w[j].pc = "returned" /\ w[j].result = "done" /\ ghost[j].raised >= 1) =>
                   /\ jobs[j].status = "done"
                   /\ AllRowsValid(uploaded[j].rows) =>
                          jobs[j].processed_rows = jobs[j].total_rows[1]

\* An attempt raised while handling the second batch, and a later attempt over
\* the same file of valid rows has returned done
C5_Witness ==
    \E j \in JobIds :
        /\ w[j].pc = "returned"
        /\ w[j].result = "done"
        /\ ghost[j].raised >= 1
        /\ ghost[j].lost = 0
        /\ AllRowsValid(uploaded[j].rows)
        /\ Len(uploaded[j].rows) > BATCH_SIZE
        /\ jobs[j].processed_rows = Len(uploaded[j].rows)

\* The snapshot of job j is rewritten by this step
SnapshotWritten(j) ==
    /\ progress'[j] # progress[j]
    /\ progress[j] # NoHash

\* C6 as stated: over all the snapshots written for a job, retried attempts
\* included, processed_rows never decreases from one snapshot to the next.
C6_NonDecreasingAcrossAttempts ==
    [][\A j \in JobIds :
          SnapshotWritten(j) =>
              progress'[j]["processed_rows"] >= progress[j]["processed_rows"]]_vars

\* C6, amended: within one attempt (from the attempt's first snapshot on),
\* processed_rows never decreases from one snapshot to the next.
C6_NonDecreasingWithinAttempt ==
    [][\A j \in JobIds :
          (SnapshotWritten(j) /\ w[j].published) =>
              progress'[j]["processed_rows"] >= progress[j]["processed_rows"]]_vars

\* An attempt of a retried job has published a batch snapshot with a count
\* above zero
C6_Witness ==
    \E j \in JobIds :
        /\ task[j].state = "running"
        /\ task[j].retries >= 1
        /\ w[j].published
        /\ w[j].pc = "read"
        /\ progress[j]["processed_rows"] > 0
        /\ progress[j]["stage"] = <<"batch", 1>>

\* C7: a job row whose total_rows is set has 0 <= processed_rows <= total_rows
\* in every state, across all attempts.
C7_CountWithinTotal ==
    \A j \in JobIds :
        (jobs[j].exists /\ jobs[j].total_rows # NoInt) =>
            /\ 0 <= jobs[j].processed_rows
            /\ jobs[j].processed_rows <= jobs[j].total_rows[1]

\* A retried job is done with more than one batch counted and a count below
\* its total (a row was skipped)
C7_Witness ==
    \E j \in JobIds :
        /\ jobs[j].status = "done"
        /\ jobs[j].total_rows # NoInt
        /\ ghost[j].raised >= 1
        /\ jobs[j].processed_rows >= BATCH_SIZE
        /\ jobs[j].processed_rows < jobs[j].total_rows[1]

-----------------------------------------------------------------------------
(* Properties of the product store under SpecR1 and SpecStore              *)

\* The product table as the set of rows by lowercase SKU with their stored
\* SKU, name, description and active (the id left out)
TableView(table) ==
    {[key |-> Lower(p.sku), sku |-> p.sku, name |-> p.name,
      description |-> p.description, active |-> p.active] : p \in table}

\* C8: when the same input has been ingested a second time after a first run
\* on the empty store, the product table (rows by lowercase SKU with name,
\* description, active and stored SKU, and their number) is what it was after
\* the first run.
C8_IngestTwiceSameTable ==
    (task["j2"].state = "acked" /\ jobs["j2"].status = "done") =>
        /\ TableView(products) = TableView(firstRun)
        /\ Cardinality(products) = Cardinality(firstRun)

\* The second run of a file of more than one batch, with two rows whose SKUs
\* differ in case only, is through
C8_Witness ==
    /\ task["j2"].state = "acked"
    /\ jobs["j2"].status = "done"
    /\ jobs["j2"].processed_rows > BATCH_SIZE
    /\ products # {}
    /\ \E i, k \in 1..Len(uploaded["j2"].rows) :
           /\ uploaded["j2"].rows[i].sku # uploaded["j2"].rows[k].sku
           /\ Lower(uploaded["j2"].rows[i].sku) = Lower(uploaded["j2"].rows[k].sku)

\* The SKU of a batch row is empty or whitespace
BlankSku(p) == p.sku = <<>> \/ Strip(p.sku) = <<>>

\* The index of the last row of the batch with this lowercase trimmed SKU
LastIndexOf(batch, key) ==
    CHOOSE i \in DOMAIN batch :
        /\ Lower(Strip(batch[i].sku)) = key
        /\ \A k \in DOMAIN batch : Lower(Strip(batch[k].sku)) = key => k <= i

\* C9: after batch_upsert, every non-blank SKU of the batch has exactly one
\* product row with its lowercase SKU, whose name, description and active are
\* those of the last batch row with that lowercase SKU; rows with an empty or
\* whitespace SKU have produced no product row.
C9_BatchUpsertLastWins ==
    lastCall.op = "batch_upsert" =>
        /\ \A i \in DOMAIN lastCall.batch :
               ~BlankSku(lastCall.batch[i]) =>
                   LET key == Lower(Strip(lastCall.batch[i].sku))
                       last == lastCall.batch[LastIndexOf(lastCall.batch, key)]
                       rows == {p \in products : Lower(p.sku) = key}
                   IN  /\ Cardinality(rows) = 1
                       /\ \A p \in rows : /\ p.name = last.name
                                          /\ p.description = last.description
                                          /\ p.active = last.active
        /\ \A p \in products : Strip(p.sku) # <<>>

\* batch_upsert was called with two rows whose SKUs differ in case only and
\* whose names differ
C9_Witness ==
    /\ lastCall.op = "batch_upsert"
    /\ Len(lastCall.batch) = 2
    /\ lastCall.batch[1].sku # lastCall.batch[2].sku
    /\ Lower(lastCall.batch[1].sku) = Lower(lastCall.batch[2].sku)
    /\ lastCall.batch[1].name # lastCall.batch[2].name
    /\ \E p \in products : p.name = lastCall.batch[2].name

\* C10: after any sequence of batch_upsert calls, single-row creates and
\* updates and batched deletes, no two product rows have the same lowercase
\* SKU.
C10_LowerSkuUnique ==
    \A p, q \in products : Lower(p.sku) = Lower(q.sku) => p = q

\* Two rows are in the table, and the last call was a batch_upsert with a row
\* whose SKU differs in case only from the stored SKU of one of them
C10_Witness ==
    /\ Cardinality(products) = 2
    /\ lastCall.op = "batch_upsert"
    /\ \E p \in products, i \in DOMAIN lastCall.batch :
           /\ lastCall.batch[i].sku # p.sku
           /\ Lower(lastCall.batch[i].sku) = Lower(p.sku)

-----------------------------------------------------------------------------
(* Properties of batch_upsert on an existing product, under SpecUpsert     *)

\* The batch has a row for the product's lowercase SKU
Proposed(batch, p) ==
    \E i \in DOMAIN batch :
        ~BlankSku(batch[i]) /\ Lower(Strip(batch[i].sku)) = Lower(p.sku)

\* C11: when batch_upsert meets a product that exists already (same lowercase
\* SKU), the row keeps its id, its created_at and its stored sku, and takes
\* name, description and active from the last row of the batch with that SKU;
\* every other existing row is left as it was.  So after two rows whose SKUs
\* differ in case only were applied one after the other, the product has the
\* later name and the created_at of the first insertion.
C11_UpsertKeepsIdAndCreatedAt ==
    [][(clock' = clock /\ lastCall'.op = "batch_upsert") =>
         \A p \in products :
            IF Proposed(lastCall'.batch, p)
            THEN LET d == lastCall'.batch[LastIndexOf(lastCall'.batch, Lower(p.sku))]
                 IN  [p EXCEPT !.name = d.name, !.description = d.description,
                               !.active = d.active] \in products'
            ELSE p \in products']_vars

\* A product inserted at an earlier time as "a" was met by a later batch with
\* "A": it has the later name and is older than the clock
C11_Witness ==
    /\ lastCall.op = "batch_upsert"
    /\ \E p \in products :
          /\ p.sku = <<"a">> /\ p.name = <<"y">>
          /\ p.created_at < clock
          /\ Len(lastCall.batch) = 1 /\ lastCall.batch[1].sku = <<"A">>

-----------------------------------------------------------------------------
(* Order of the job row, the snapshot and the fan-out, under Spec          *)

\* The record a step adds to the fan-out, as a set
FannedOut == {fanout'[i] : i \in (Len(fanout) + 1)..Len(fanout')}

-----------------------------------------------------------------------------
(* The bulk-delete worker, under Spec                                      *)

\* The first attempt of the bulk-delete work item of job j is running its try
\* block, no worker was lost and nothing was raised
FirstCleanAttempt(j) ==
    /\ task[j].state = "running"
    /\ w[j].kind = "bulk_delete"
    /\ w[j].pc \notin HandlerPcs
    /\ ghost[j].runs = 1 /\ ghost[j].raised = 0 /\ ghost[j].lost = 0

\* The product table is empty and no product was ever inserted, so the
\* bulk-delete run counts 0 products
EmptyTable == products = {} /\ nextId = 1

\* C13 as stated: in a run against the empty product table the job row
\* enters done from importing (queued, parsing, importing, done), and the
\* product.bulk_deleted event has deleted_count = 0.
C13_EmptyTableThroughImporting ==
    [][\A j \in JobIds :
          (FirstCleanAttempt(j) /\ EmptyTable) =>
              /\ (jobs'[j].status = "done" /\ jobs[j].status # "done")
                    => jobs[j].status = "importing"
              /\ \A e \in FannedOut :
                    e.event = "product.bulk_deleted" /\ e.payload.deleted_count = 0]_vars

\* C13 amended: in a run without error against the empty product table the
\* job row goes from queued to parsing and from parsing to done and makes no
\* other change of status (it is never importing); what is fanned out is
\* product.bulk_deleted with deleted_count = 0, and the attempt returns with
\* the row done, processed_rows = 0 and that event fanned out.
C13_EmptyTableParsingThenDone ==
    [][\A j \in JobIds :
          (FirstCleanAttempt(j) /\ EmptyTable) =>
              /\ jobs'[j].status # jobs[j].status =>
                    <<jobs[j].status, jobs'[j].status>>
                        \in {<<"queued", "parsing">>, <<"parsing", "done">>}
              /\ \A e \in FannedOut :
                    /\ e.event = "product.bulk_deleted" /\ e.job_id = j
                    /\ e.payload.deleted_count = 0
              /\ w'[j].pc = "returned" =>
                    /\ w'[j].result = "done"
                    /\ jobs'[j].status = "done" /\ jobs'[j].processed_rows = 0
                    /\ FannedOut # {}]_vars

\* A bulk delete of the empty table has returned on its first attempt
C13_Witness ==
    /\ task["j2"].kind = "bulk_delete"
    /\ w["j2"].pc = "returned" /\ w["j2"].total_rows = 0
    /\ ghost["j2"].runs = 1 /\ ghost["j2"].lost = 0
    /\ products = {} /\ nextId = 1
    /\ jobs["j2"].status = "done"
    /\ fanout # <<>> /\ fanout[Len(fanout)].event = "product.bulk_deleted"

\* ceil(n / d)
CeilDiv(n, d) == (n + d - 1) \div d

\* C14: in a bulk-delete run without failure and without another writer, on a
\* table of N > 0 products, every pass of the loop is one delete transaction
\* of at least one and at most DELETE_BATCH_SIZE rows, and the attempt
\* returns after ceil(N / DELETE_BATCH_SIZE) of them with the job row done,
\* processed_rows = N, the table empty, and product.bulk_deleted fanned out
\* with deleted_count = total_products = N.
C14_BulkDeleteInBatches ==
    [][\A j \in JobIds :
          (FirstCleanAttempt(j) /\ FirstCleanAttempt(j)' /\ nextId > 1) =>
              /\ products' # products =>
                    /\ products' \subseteq products
                    /\ Cardinality(products) - Cardinality(products') <= DELETE_BATCH_SIZE
                    /\ w'[j].batch_num = w[j].batch_num + 1
              /\ w'[j].batch_num # w[j].batch_num => products' # products
              /\ w'[j].pc = "returned" =>
                    LET N == w'[j].total_rows
                    IN  /\ N > 0
                        /\ w'[j].batch_num = CeilDiv(N, DELETE_BATCH_SIZE)
                        /\ w'[j].result = "done"
                        /\ jobs'[j].status = "done" /\ jobs'[j].processed_rows = N
                        /\ products' = {}
                        /\ \E e \in FannedOut :
                              /\ e.event = "product.bulk_deleted" /\ e.job_id = j
                              /\ e.payload.deleted_count = N
                              /\ e.payload.total_products = N]_vars

\* A bulk delete of more products than one batch holds, the last batch a
\* partial one, has returned on its first attempt
C14_Witness ==
    /\ task["j2"].kind = "bulk_delete"
    /\ w["j2"].pc = "returned" /\ w["j2"].result = "done"
    /\ ghost["j2"].runs = 1 /\ ghost["j2"].lost = 0 /\ ghost["j2"].raised = 0
    /\ w["j2"].total_rows > DELETE_BATCH_SIZE
    /\ w["j2"].total_rows % DELETE_BATCH_SIZE # 0
    /\ w["j2"].batch_num = 2
    /\ products = {}

\* The attempt of job j is inside the except block of
\* bulk_delete_all_products_task
InBulkHandler(j) ==
    /\ task[j].state = "running"
    /\ w[j].kind = "bulk_delete"
    /\ w[j].pc \in HandlerPcs

\* C15: when a bulk-delete attempt raises on the last permitted attempt, then,
\* by the time its except block is through, the job row is failed with an
\* error text, the snapshot has status failed, and a failure event was fanned
\* out for the job; while retries remain the except block leaves the job row
\* and the fan-out as they are and writes no failed snapshot.
C15_BulkFinalFailureEffects ==
    [][\A j \in JobIds :
          InBulkHandler(j) =>
              /\ task[j].retries < max_retries =>
                    /\ jobs'[j] = jobs[j]
                    /\ fanout' = fanout
                    /\ progress'[j] # progress[j] => progress'[j]["status"] # "failed"
              /\ (LastAttempt(j) /\ w'[j].pc = "reraise" /\ w[j].pc # "reraise") =>
                    /\ jobs'[j].status = "failed"
                    /\ jobs'[j].error_message # NoError
                    /\ "status" \in DOMAIN progress'[j]
                    /\ progress'[j]["status"] = "failed"
                    /\ \E i \in 1..Len(fanout') :
                          fanout'[i].job_id = j /\ fanout'[i].payload.status = "failed"]_vars

\* The last attempt of a bulk delete raised in the delete loop: the row is
\* failed and the failed snapshot is written, and nothing was fanned out for
\* the job
C15_FailedWithoutEvent ==
    \E j \in JobIds :
        /\ InBulkHandler(j)
        /\ w[j].pc = "reraise"
        /\ LastAttempt(j)
        /\ w[j].tracker
        /\ jobs[j].status = "failed"
        /\ jobs[j].error_message = ErrorMessage(w[j].exc)
        /\ progress[j]["status"] = "failed"
        /\ \A i \in 1..Len(fanout) : fanout[i].job_id # j

-----------------------------------------------------------------------------
(* The bulk-delete endpoint, under SpecApi                                 *)

\* C16: a bulk-delete request is answered 202 with the id of a job that did
\* not exist before; the job row it created has kind bulk_delete (the kind the
\* bulk-delete worker checks for), status queued and processed_rows 0; and
\* exactly one work item was enqueued, a bulk-delete work item with that job's
\* id.
C16_BulkDeleteRequestAccepted ==
    [][http' # http =>
         /\ http'.endpoint = "bulk_delete"
         /\ http'.status_code = 202
         /\ \E j \in JobIds :
               /\ http'.job_id = j
               /\ ~jobs[j].exists
               /\ jobs'[j].exists
               /\ jobs'[j].job_type = "bulk_delete"
               /\ jobs'[j].status = "queued"
               /\ jobs'[j].processed_rows = 0
               /\ task'[j] = [kind |-> "bulk_delete", state |-> "ready", retries |-> 0]
               /\ \A t \in TaskIds \ {j} : task'[t] = task[t]
               /\ \A k \in JobIds \ {j} : jobs'[k] = jobs[k]]_vars

\* A bulk-delete request was answered 500 while products exist: no job row
\* and no bulk-delete work item were created
C16_RequestAnswered500 ==
    /\ http.endpoint = "bulk_delete"
    /\ http.status_code = 500
    /\ products # {}
    /\ \A j \in JobIds : ~jobs[j].exists
    /\ \A t \in TaskIds : task[t].kind # "bulk_delete"

-----------------------------------------------------------------------------
(* Properties of the progress stream under SpecStream                      *)

\* A progress payload whose status is done or failed
TerminalEvent(e) == e.type = "progress" /\ e.data["status"] \in Terminal

\* The generator has left its loop: it is about to emit close, or is in its
\* finally block, or has finished
AfterLoopPcs == {"close", "finally", "aclose", "ended"}

\* C17: once the stream has emitted a payload whose status is done or failed
\* (initial event, live message or polled snapshot), no progress payload
\* follows it, the generator leaves its loop to emit close, at most one close
\* event is emitted, and a stream that ended by closing emitted exactly one,
\* as its last event
C17_TerminalPayloadEndsStream ==
    /\ \A i, k \in DOMAIN emitted :
          i < k /\ TerminalEvent(emitted[i]) => emitted[k].type # "progress"
    /\ (\E i \in DOMAIN emitted : TerminalEvent(emitted[i])) => stream.pc \in AfterLoopPcs
    /\ Cardinality({i \in DOMAIN emitted : emitted[i].type = "close"}) <= 1
    /\ stream.pc = "ended" /\ stream.ended = "closed"
          => emitted # <<>> /\ emitted[Len(emitted)].type = "close"

\* The initial event had a terminal status and a second progress payload
\* (the polled snapshot) was emitted after it
C17_ProgressAfterTerminalInitial ==
    /\ Len(emitted) >= 2
    /\ TerminalEvent(emitted[1])
    /\ emitted[2].type = "progress"

\* C18: while no published message has been received, an iteration of the
\* loop that starts when poll_interval has passed since the last poll and
\* goes on to the heartbeat has polled the stored snapshot (last_poll_time is
\* then the current time)
C18_SilentChannelPolls ==
    [][ /\ ~stream.live /\ ~stream'.live
        /\ stream.pc = "wait"
        /\ stream.elapsed >= poll_interval
        /\ stream'.pc = "heartbeat"
        => stream'.elapsed = 0 ]_vars

\* No message was received, poll_interval has passed since the last poll,
\* and the iteration has reached its heartbeat without polling
C18_NoPollAfterInterval ==
    /\ ~stream.live
    /\ stream.pc = "heartbeat"
    /\ stream.elapsed >= poll_interval

\* The finally block of the generator, and its end
FinallyPcs == {"finally", "aclose", "ended"}

Stamped == {i \in DOMAIN emitted :
               emitted[i].type = "progress" /\ "updated_at" \in DOMAIN emitted[i].data}

\* C20: the progress payloads the stream has emitted for the job, whose
\* snapshots one worker writes, are in non-decreasing order of updated_at
C20_EmittedInUpdateOrder ==
    \A i, k \in Stamped :
        i < k => emitted[i].data["updated_at"] <= emitted[k].data["updated_at"]

\* The stream emitted the stored snapshot as its initial event and then a
\* message that was published before that snapshot was written
C20_OlderAfterNewer ==
    /\ {1, 2} \subseteq Stamped
    /\ emitted[2].data["updated_at"] < emitted[1].data["updated_at"]
    /\ stream.live

-----------------------------------------------------------------------------
(* Properties of functions followed on their own, under SpecCalls          *)

\* The subscriptions of the table publish_event was called on that are
\* enabled and list the event type
Subscribed ==
    {i \in DOMAIN call.table :
        /\ call.table[i].exists /\ call.table[i].enabled
        /\ call.event_type \in call.table[i].events}

\* C21: publish_event never raises; when its query succeeds it enqueues
\* exactly one delivery work item, of the event type, for each enabled
\* subscription listing the event type whose enqueue call did not fail, and
\* none for any other subscription
C21_OneDeliveryPerSubscription ==
    call.op = "publish_event" =>
        /\ ~call.result.raised
        /\ ~call.query_fails =>
              /\ \A i \in DOMAIN call.table :
                    Cardinality({k \in DOMAIN call.result.enqueued :
                                    call.result.enqueued[k].webhook_id = i})
                      = IF i \in Subscribed \ call.broken THEN 1 ELSE 0
              /\ \A k \in DOMAIN call.result.enqueued :
                    call.result.enqueued[k].event_type = call.event_type

\* Two subscriptions qualify, the enqueue for the first fails and the second
\* is enqueued all the same
C21_Witness ==
    /\ call.op = "publish_event"
    /\ ~call.query_fails
    /\ Subscribed = {1, 2}
    /\ call.broken = {1}
    /\ Len(call.result.enqueued) = 1
    /\ call.result.enqueued[1].webhook_id = 2

-----------------------------------------------------------------------------
(* Properties of the webhook delivery task                                 *)

\* C22: a delivery attempt whose POST got a non-2xx response or ended in a
\* timeout, a transport error or another exception does not return normally:
\* having recorded the delivery as failed it raises, so that the broker
\* schedules another attempt
C22_FailedDeliveryRaises ==
    \A t \in TaskIds :
        (w[t].kind = "webhook" /\ w[t].delivery_id # 0 /\ ~w[t].is_success)
            => w[t].pc # "returned"

\* The only attempt of a delivery recorded it as failed and returned; the
\* work item was acknowledged and no other attempt was scheduled
C22_FailedDeliveryAcked ==
    /\ task["d1"].state = "acked"
    /\ ghost["d1"].runs = 1
    /\ ghost["d1"].raised = 0
    /\ Len(deliveries) = 1
    /\ deliveries[1].status = "failed"

\* P5: every delivery record whose status is not pending has completed_at
CompletedWhenNotPending ==
    \A i \in DOMAIN deliveries :
        deliveries[i].status # "pending" => deliveries[i].completed_at

\* A step creates records as pending without completed_at, and changes a
\* record only from pending, to success or failed, setting completed_at
RecordChangedFromPendingOnly ==
    /\ Len(deliveries') >= Len(deliveries)
    /\ \A i \in DOMAIN deliveries' \ DOMAIN deliveries :
          deliveries'[i].status = "pending" /\ ~deliveries'[i].completed_at
    /\ \A i \in DOMAIN deliveries :
          deliveries'[i] # deliveries[i] =>
              /\ deliveries[i].status = "pending"
              /\ deliveries'[i].status \in {"success", "failed"}
              /\ deliveries'[i].completed_at

\* The record an attempt created, when the attempt leaves the task function
\* in the way given (pc is "returned" or "reraise"), is not pending
NotPendingAtExit(pcs) ==
    \A t \in TaskIds :
        (w[t].kind = "webhook" /\ w[t].pc \in pcs /\ w[t].delivery_id # 0)
            => deliveries[w[t].delivery_id].status # "pending"

C24_RejectedUploadLeavesNothing ==
    call.op = "upload_csv" =>
        /\ call.result.status_code # 202 =>
              /\ ~call.result.job_created
              /\ ~call.result.enqueued
              /\ ~call.result.temp_file
        /\ call.req.csv_name /\ call.req.size_mb > max_upload_size_mb =>
              call.result.status_code = 413
        /\ (/\ call.req.csv_name
            /\ call.req.size_mb <= max_upload_size_mb
            /\ ~validate_upload(call.req).is_valid) =>
              call.result.status_code = 400
        /\ (/\ call.req.csv_name
            /\ call.req.size_mb <= MAX_FILE_SIZE_MB
            /\ REQUIRED_HEADERS \ call.req.headers # {}) =>
              /\ call.result.status_code = 400
              /\ call.result.errors.headers = REQUIRED_HEADERS \ call.req.headers

\* A file without the name header was saved, failed validation and was
\* answered 400 naming the header, with the saved file removed
C24_Witness ==
    /\ call.op = "upload_csv"
    /\ call.req.csv_name
    /\ call.req.size_mb <= MAX_FILE_SIZE_MB
    /\ "name" \notin call.req.headers
    /\ call.result.status_code = 400
    /\ call.result.errors.headers = {"name"}
    /\ ~call.result.temp_file

-----------------------------------------------------------------------------
(* Properties of the ingest task under failing collateral calls, under     *)
(* SpecCollateral                                                          *)

\* What the batch loop of process_csv_import leaves behind when nothing fails:
\* the product table and the number of rows counted
RECURSIVE CleanRun(_, _, _, _, _)
CleanRun(rows, pos, table, nid, count) ==
    LET r == ReadBatch(rows, pos, <<>>)
    IN  IF r.batch = <<>>
        THEN [products |-> table, processed_rows |-> count]
        ELSE LET u == batch_upsert(table, nid, r.batch, clock)
             IN  IF Len(r.batch) < BATCH_SIZE
                 THEN [products |-> u.products,
                       processed_rows |-> count + Len(r.batch)]
                 ELSE CleanRun(rows, r.pos, u.products, u.nextId,
                               count + Len(r.batch))

\* C25: whatever calls to the progress store and whatever fan-out failed
\* during an ingest attempt, the attempt returns without having raised, the job
\* row ends done with the row count, and the product table is the one the same
\* file gives when no such call fails.
C25_CollateralFailuresKeepOutcome ==
    \A j \in JobIds :
        (w[j].kind = "import" /\ w[j].pc = "returned") =>
            LET clean == CleanRun(uploaded[j].rows, 0, {}, 1, 0)
            IN  /\ ghost[j].raised = 0
                /\ w[j].result = "done"
                /\ jobs[j].status = "done"
                /\ jobs[j].processed_rows = clean.processed_rows
                /\ products = clean.products

\* An attempt has returned although the fan-out was not recorded and no
\* snapshot reached the progress store
C25_Witness ==
    /\ outage
    /\ w["j1"].kind = "import" /\ w["j1"].pc = "returned"
    /\ Len(uploaded["j1"].rows) = MaxRows
    /\ products # {}
    /\ fanout = <<>>
    /\ progress["j1"] = NoHash

-----------------------------------------------------------------------------
(* Properties of the temporary file of a failed ingest attempt, under Spec *)

\* The exception of the attempt came out of the processing of a batch: the
\* batch is still held and the rows counted are those of the batches before it
RaisedInBatch(j) ==
    /\ w[j].kind = "import"
    /\ w[j].pc = "reraise"
    /\ w[j].batch # <<>>
    /\ w[j].processed_rows = w[j].batch_num * BATCH_SIZE

\* C26: when an ingest attempt is about to re-raise an exception that came out
\* of batch processing, the temporary input file is gone, on the first attempt
\* as on any other.
C26_FileRemovedWhenBatchRaises ==
    \A j \in JobIds : RaisedInBatch(j) => ~files[j].exists

\* The first attempt re-raises a batch failure and the file is still on disk
C26_FirstAttemptKeepsFile ==
    \E j \in JobIds :
        /\ RaisedInBatch(j)
        /\ task[j].retries = 0
        /\ w[j].batch_num = 0
        /\ files[j].exists

\* A call of update_status on an existing row
StatusUpdated == call.op = "update_status" /\ call.before.exists

\* The call would move the row to an earlier status, and is not the return to
\* parsing that a retried attempt starts with
Regression ==
    /\ StatusUpdated
    /\ StatusRank(call.status) < StatusRank(call.before.status)
    /\ call.status # "parsing"

\* C27: update_status leaves the row as it was when the call would move the
\* job to an earlier status (the reset to parsing of a retried attempt apart),
\* and every call it accepts refreshes updated_at.
C27_RegressionRejected ==
    /\ Regression => (call.result = call.before /\ call.updated_at = call.updated_at_before)
    /\ (StatusUpdated /\ call.result # call.before) => call.updated_at > call.updated_at_before

\* A done job has been moved back to importing, with a new updated_at
C27_DoneMovedBack ==
    /\ StatusUpdated
    /\ call.before.status = "done"
    /\ call.status = "importing"
    /\ call.result.status = "importing"
    /\ call.result.processed_rows = 2
    /\ call.updated_at > call.updated_at_before

-----------------------------------------------------------------------------
(* Properties of the batches of an uninterrupted ingest, under SpecR1      *)

\* N: the rows of the uploaded file that _parse_csv_row turns into a product
ValidCount(j) ==
    Cardinality({i \in 1..Len(uploaded[j].rows) : parse_csv_row(uploaded[j].rows[i]).ok})

BatchesOf(n) == (n + BATCH_SIZE - 1) \div BATCH_SIZE

\* The size of batch k of a file with n valid rows
BatchSize(n, k) == IF k * BATCH_SIZE <= n THEN BATCH_SIZE ELSE n % BATCH_SIZE

\* The batches are counted up to ceil(N / B); after the loop there are exactly
\* that many, and the attempt returns with the job done at N rows
BatchesCounted(j) ==
    w[j].kind = "import" =>
        /\ w[j].batch_num <= BatchesOf(ValidCount(j))
        /\ w[j].pc \in {"set_done", "pub_done", "fanout", "unlink"} =>
               /\ w[j].batch_num = BatchesOf(ValidCount(j))
               /\ w[j].processed_rows = ValidCount(j)
        /\ (w[j].pc = "returned" /\ files[j] = NoFile) =>
               /\ jobs[j].status = "done"
               /\ jobs[j].processed_rows = ValidCount(j)

\* Batch k: the upsert commits before the row and the snapshot move, then the
\* row takes the running total, then the snapshot of the batch is published
BatchInOrder(j) ==
    LET n == ValidCount(j)
        k == w'[j].batch_num
        total == Min(k * BATCH_SIZE, n)
    IN  /\ (Running(j, "import", "batch") /\ w'[j] # w[j]) =>
              /\ w'[j].pc = "upd_progress"
              /\ k = w[j].batch_num + 1
              /\ Len(w[j].batch) = BatchSize(n, k)
              /\ w'[j].processed_rows = total
              /\ jobs' = jobs /\ progress' = progress
        /\ (Running(j, "import", "upd_progress") /\ w'[j] # w[j]) =>
              /\ w'[j].pc = "pub_progress"
              /\ jobs'[j].status = "importing"
              /\ jobs'[j].processed_rows = total
              /\ products' = products /\ progress' = progress
        /\ (Running(j, "import", "pub_progress") /\ w'[j] # w[j]) =>
              /\ jobs[j].processed_rows = total
              /\ progress'[j].status = "importing"
              /\ progress'[j].processed_rows = total
              /\ progress'[j].stage = IF k * BATCH_SIZE > n THEN <<"batch", k, "final">>
                                     ELSE <<"batch", k>>
              /\ jobs' = jobs /\ products' = products

\* C28: an ingest of N valid rows calls batch_upsert ceil(N / B) times, with
\* B rows each and N mod B rows in a last partial batch whose snapshot is
\* labelled final; for each batch the upsert commits first, then the job row
\* is set to importing with the running total, then the snapshot is published;
\* the run ends with the job done and processed_rows = N.
C28_BatchesInOrder ==
    /\ [](\A j \in JobIds : BatchesCounted(j))
    /\ [][\A j \in JobIds : BatchInOrder(j)]_vars

\* A file of MaxRows valid rows has been ingested in a full batch and a final
\* partial one
C28_Witness ==
    /\ w["j1"].kind = "import" /\ w["j1"].pc = "returned"
    /\ ValidCount("j1") = MaxRows
    /\ MaxRows % BATCH_SIZE # 0
    /\ w["j1"].batch_num = BatchesOf(MaxRows)
    /\ progress["j1"].status = "done"
    /\ jobs["j1"].processed_rows = MaxRows

-----------------------------------------------------------------------------
(* Properties of work items without a matching job row, under              *)
(* SpecBadMessage                                                          *)

\* The attempt running for job id j is on a bad message: an ingest without a
\* job row, or a bulk delete without a job row or on a row of another kind
BadMessage(j) ==
    /\ task[j].state = "running"
    /\ \/ task[j].kind = "import" /\ ~jobs[j].exists
       \/ task[j].kind = "bulk_delete" /\
              (~jobs[j].exists \/ jobs[j].job_type # "bulk_delete")

\* Every step of an attempt on a bad message leaves the job rows, the product
\* rows, the snapshots and the webhook queue alone and schedules no retry
BadMessageStep(j) ==
    (BadMessage(j) /\ w'[j] # w[j]) =>
        /\ jobs' = jobs /\ products' = products
        /\ progress' = progress /\ channel' = channel
        /\ fanout' = fanout /\ deliveries' = deliveries
        /\ task'["d1"] = task["d1"]
        /\ task'[j].state \in {"running", "acked"}
        /\ task'[j].retries = 0
        /\ ghost'[j].raised = ghost[j].raised

\* C29: a task run on a bad message (an ingest whose job row is missing, a
\* bulk delete whose job row is missing or is not a bulk-delete row) gets no
\* further than the lookup of the row: it returns without raising, no retry is
\* scheduled, and no job row, product row, snapshot or webhook work item
\* changes.
C29_BadMessageDropped ==
    /\ [](\A j \in JobIds :
             BadMessage(j) => /\ w[j].pc \in {"start", "lookup", "returned"}
                              /\ w[j].pc = "returned" => w[j].result = "failed")
    /\ [][\A j \in JobIds : BadMessageStep(j)]_vars

\* An ingest message for the missing row j2 has been acknowledged, and a bulk
\* delete message on the import row j1 has returned, with the products of j1
\* still in the table
C29_Witness ==
    /\ ~jobs["j2"].exists /\ task["j2"].kind = "import" /\ task["j2"].state = "acked"
    /\ BadMessage("j1") /\ task["j1"].kind = "bulk_delete"
    /\ jobs["j1"].job_type = "import"
    /\ w["j1"].pc = "returned"
    /\ products # {}

-----------------------------------------------------------------------------
(* Properties of the progress-store connection of a task, under Spec       *)

\* C30: when an ingest or bulk-delete attempt leaves the task function, by
\* returning or by re-raising, the progress-store connection it opened at its
\* start has been closed.
C30_ConnectionClosedAtExit ==
    \A j \in JobIds :
        (task[j].state = "running" /\ w[j].pc \in {"returned", "reraise"}) =>
            ~w[j].redis_open

\* An ingest attempt that found its file missing has returned with the
\* connection still open
C30_MissingFileLeavesOpen ==
    \E j \in JobIds :
        /\ task[j].state = "running" /\ w[j].kind = "import"
        /\ w[j].pc = "returned" /\ w[j].result = "failed"
        /\ ~files[j].exists
        /\ w[j].redis_open

-----------------------------------------------------------------------------
(* Properties of the content of the snapshots, under Spec                  *)

\* C31: every write of a snapshot by a worker stores a status that is the
\* persisted status of the job row at that moment, and one of the job
\* statuses, for ingest and bulk-delete jobs, failure paths included.
C31_SnapshotStatusIsRowStatus ==
    [][\A j \in JobIds :
          progress'[j] # progress[j] =>
              /\ progress'[j].status = jobs'[j].status
              /\ progress'[j].status \in ImportStatuses]_vars

\* The snapshot of a bulk-delete job says preparing while its row is parsing
C31_PreparingWhileParsing ==
    \E j \in JobIds :
        /\ jobs[j].job_type = "bulk_delete"
        /\ jobs[j].status = "parsing"
        /\ progress[j] # NoHash
        /\ progress[j].status = "preparing"


\* The percentage of a snapshot, in hundredths of a percent
FullPct == 10000

\* C32: in every snapshot the processed count is at most the total count and
\* the percentage lies between 0 and 100, also for a bulk delete during which
\* other sessions insert products.
C32_ProcessedWithinTotal ==
    \A j \in JobIds :
        progress[j] # NoHash =>
            /\ progress[j].processed_rows <= progress[j].total_rows
            /\ progress[j].progress >= 0
            /\ progress[j].progress <= FullPct

\* A bulk delete that counted one product has published two deleted products
C32_DeletedMoreThanCounted ==
    /\ progress["j2"] # NoHash
    /\ progress["j2"].status = "deleting"
    /\ progress["j2"].total_rows = 1
    /\ progress["j2"].processed_rows = 2
    /\ progress["j2"].progress > FullPct


\* C33: the response body stored in a delivery record is never longer than
\* MAX_RESPONSE_BODY_LENGTH characters, whatever the length of the endpoint's
\* response or of the error text.
C33_StoredBodyWithinLimit ==
    call.op = "response_body" => Len(call.result) <= MAX_RESPONSE_BODY_LENGTH

\* A response one character over the limit is stored with the mark after the
\* cut, longer than it was received
C33_CutBodyOverLimit ==
    /\ call.op = "response_body"
    /\ call.kind = "response"
    /\ Len(call.text) = MAX_RESPONSE_BODY_LENGTH + 1
    /\ Len(call.result) = MAX_RESPONSE_BODY_LENGTH + Len(TruncatedMark)

-----------------------------------------------------------------------------
(* Properties of concurrent increments of a job's counter, under           *)
(* SpecIncrement                                                           *)

Returned == {s \in SessionIds : sessions[s].pc = "returned"}

RECURSIVE SumOfCounts(_)
SumOfCounts(S) ==
    IF S = {} THEN 0
    ELSE LET s == CHOOSE x \in S : TRUE
         IN  sessions[s].count + SumOfCounts(S \ {s})

\* C34: whatever the interleaving of the calls of increment_processed_rows on
\* one job from different sessions, the job's processed_rows is its value at
\* creation, 0, plus the counts of the calls that have returned.
C34_NoIncrementLost ==
    jobs["j1"].exists => jobs["j1"].processed_rows = SumOfCounts(Returned)

\* Both sessions have returned and the counter holds the count of one of them
C34_IncrementLost ==
    /\ Returned = SessionIds
    /\ sessions["s1"].read = 0 /\ sessions["s2"].read = 0
    /\ jobs["j1"].processed_rows < sessions["s1"].count + sessions["s2"].count


\* C35: for every value of the active column the worker's row parser and the
\* input validator agree: both true, both false, or both reject.
C35_SameActiveCoercion ==
    call.op = "active" => call.worker = call.validator

\* A word that is neither a true word nor a false word: the validator rejects
\* it and the worker stores the product as active
C35_WorkerAcceptsUnknownWord ==
    /\ call.op = "active"
    /\ call.value = <<"m">>
    /\ call.validator = "ValueError"
    /\ call.worker = "true"

-----------------------------------------------------------------------------
(* Properties of the counter of an ingest attempt, under Spec              *)

\* The products that _parse_csv_row makes of the rows of a file, in file order
ParsedRows(rows) ==
    SelectSeq([i \in 1..Len(rows) |-> parse_csv_row(rows[i])], LAMBDA p : p.ok)

\* The first n parsed rows of the file of job j are in the table
FirstRowsStored(table, j, n) ==
    /\ n <= Len(ParsedRows(uploaded[j].rows))
    /\ \A i \in 1..n : ConflictRows(table, ParsedRows(uploaded[j].rows)[i].sku) # {}

-----------------------------------------------------------------------------
(* Properties of the start of the subscription, under SpecStream           *)

\* The generator is at the read of the initial snapshot, or past it and
\* inside its loop or at the close event
AtOrPastInitial == stream.pc \in {"initial", "wait", "heartbeat", "close"}

\* A worker's write to the snapshot of the streamed job
WriteOfStreamedJob ==
    /\ AtOrPastInitial
    /\ progress'[stream.job_id] # progress[stream.job_id]

\* C37: the stream is subscribed to the job's channel when it reads the
\* initial snapshot and from then on, so each snapshot a worker writes from the
\* initial read onwards is also published on the channel the stream listens to.
C37_SubscribedBeforeInitialRead ==
    /\ [](AtOrPastInitial => stream.subscribed)
    /\ [][WriteOfStreamedJob =>
             /\ Len(channel') = Len(channel) + 1
             /\ \A k \in DOMAIN channel'[Len(channel')] :
                    progress'[stream.job_id][k] = channel'[Len(channel')][k]]_vars

\* After the initial event a worker has written a snapshot, and the message
\* that carries it waits on the channel
C37_Witness ==
    /\ stream.pc = "wait"
    /\ Len(emitted) = 1
    /\ channel # <<>>
    /\ progress[stream.job_id] # NoHash
    /\ channel[Len(channel)]["updated_at"] = progress[stream.job_id]["updated_at"]
    /\ 1 \in Stamped => emitted[1].data["updated_at"] < channel[Len(channel)]["updated_at"]

-----------------------------------------------------------------------------
(* Properties of the fields of a stored snapshot, under Spec               *)

\* C38: a stored snapshot whose status is done has no error_message field,
\* also when an earlier attempt of the job failed and was retried.
C38_DoneSnapshotWithoutError ==
    \A j \in JobIds :
        (progress[j] # NoHash /\ progress[j].status = "done") =>
            "error_message" \notin DOMAIN progress[j]

\* A job whose earlier attempt raised has finished: its done snapshot still
\* holds the error_message of the failed attempt
C38_ErrorSurvivesRetry ==
    \E j \in JobIds :
        /\ ghost[j].raised >= 1
        /\ jobs[j].status = "done"
        /\ progress[j] # NoHash
        /\ progress[j].status = "done"
        /\ "error_message" \in DOMAIN progress[j]
        /\ progress[j]["error_message"] = ErrorMessage(DbError)

-----------------------------------------------------------------------------
(* Liveness of an ingest job, under SpecLive                               *)

\* C39: an ingest job whose work item was enqueued eventually has status done
\* or failed, when the broker keeps delivering the work item and no worker is
\* lost: it does not stay in parsing or importing forever.
C39_JobEventuallyTerminal ==
    (jobs["j1"].exists /\ task["j1"].state = "ready" /\ task["j1"].retries = 0)
        ~> (jobs["j1"].status \in {"done", "failed"})

\* The job has failed after its last retry raised, the row having been left
\* in importing by the attempts before
C39_Witness ==
    /\ task["j1"].state = "dead"
    /\ ghost["j1"].raised = max_retries + 1
    /\ jobs["j1"].status = "failed"
    /\ products # {}

-----------------------------------------------------------------------------
(* Properties of the job row of an upload, under SpecEnqueue               *)

\* C40: a job row in status queued has a work item; an upload whose enqueue
\* failed leaves no queued row behind.
C40_QueuedRowHasWorkItem ==
    \A j \in JobIds :
        (jobs[j].exists /\ jobs[j].status = "queued") => task[j].state # "none"

\* The upload was answered 500 after its enqueue failed: the row is queued,
\* there is no work item and the file is gone, while the worker is idle
C40_QueuedRowOrphaned ==
    /\ http.endpoint = "upload" /\ http.status_code = 500
    /\ jobs["j2"].exists /\ jobs["j2"].status = "queued"
    /\ task["j2"].state = "none"
    /\ ~files["j2"].exists
    /\ task["j1"].state \in {"none", "acked"}

=============================================================================
